---- MODULE Spec2Model ----
(***************************************************************************)
(* Model of mindnlp's auto-dispatch registry (models/auto/modeling_auto.py)*)
(* and of the Neighborhood Attention Transformer (models/nat/              *)
(* modeling_nat.py).                                                       *)
(*                                                                         *)
(* The specifications share the variables:                                 *)
(*   SpecRegistry  the task tables, the lazy mappings and the facades      *)
(*   SpecNat       construction and forward pass of the NAT building blocks*)
(*   SpecDropPath  the drop_path function and NatDropPath                  *)
(*   SpecModel     NatEncoder and NatModel: construction, forward pass,    *)
(*                 head pruning of the model                               *)
(*   SpecBackbone  NatBackbone: construction and forward pass              *)
(*   SpecAttention NeighborhoodAttention(Module): forward pass             *)
(*   SpecPrune     NeighborhoodAttentionModule.prune_heads                 *)
(*   SpecClassifier, SpecConcurrent                                        *)
(*                 NatForImageClassification.construct, one call at a time *)
(*                 and two calls interleaved                               *)
(***************************************************************************)
EXTENDS Integers, Sequences, FiniteSets, TLC

VARIABLES
    \* ---- registry ----
    cache,      \* per lazy mapping: architecture key -> resolved class (memo)
    imports,    \* per lazy mapping and key: how often the class was imported
    extra,      \* per lazy mapping: _extra_content, key -> registered class
    pc,         \* "idle", or "warned" inside AutoModelWithLMHead.<op>
    cur,        \* the top-level call being (or last) executed
    events,     \* what the current/last top-level call did, in order
    ret,        \* outcome of the last completed top-level call
    \* ---- NAT blocks ----
    npc,        \* position of the NAT scenario
    cfg,        \* the configuration / constructor arguments in use
    obj,        \* the constructed block (its fields)
    input,      \* shape of the tensor given to construct
    trace,      \* tensor operations run by the forward pass, in order
    out,        \* result of the forward pass
    \* ---- drop path ----
    dpc,        \* position of the drop-path scenario
    dp_in,      \* input tensor
    dp_prob,    \* drop_prob, as a numerator over ProbDen (or NoProb)
    dp_train,   \* the training flag
    dp_rand,    \* the draw of ops.rand, one numerator over ProbDen per entry
    dp_out,     \* output tensor
    \* ---- NAT models ----
    kernel,     \* what the module-level natten2dqkrpb / natten2dav are bound to
    mpc,        \* position of the model scenario
    mcfg,       \* the NatConfig in use (problem_type is written by the classifier)
    model,      \* the constructed model (its fields)
    mcall,      \* arguments of the last call on the model
    mout,       \* outcome of the last call on the model
    \* ---- attention module ----
    apc,        \* position of the attention scenario
    att,        \* the NeighborhoodAttentionModule (its fields and its .self)
    acall,      \* arguments of the last call on the module
    aout,       \* outcome of the last call on the module
    \* ---- classification head: forward passes in flight ----
    tpc,        \* per caller: position inside NatForImageClassification.construct
    tcall,      \* per caller: the arguments of its call
    tloc        \* per caller: its locals (outputs, logits, loss) and what it ran

regVars == <<cache, imports, extra, pc, cur, events, ret>>
natVars == <<npc, cfg, obj, input, trace, out>>
dpVars  == <<dpc, dp_in, dp_prob, dp_train, dp_rand, dp_out>>
mdlVars == <<kernel, mpc, mcfg, model, mcall, mout>>
attVars == <<apc, att, acall, aout>>
clsVars == <<tpc, tcall, tloc>>
topVars == <<mdlVars, attVars, clsVars>>
vars    == <<cache, imports, extra, pc, cur, events, ret,
             npc, cfg, obj, input, trace, out,
             dpc, dp_in, dp_prob, dp_train, dp_rand, dp_out,
             kernel, mpc, mcfg, model, mcall, mout,
             apc, att, acall, aout,
             tpc, tcall, tloc>>

(***************************************************************************)
(* Part 1.  Auto-dispatch registry                                         *)
(***************************************************************************)

NoClass == "None"

\* ---- task tables (ordered key -> class-name association lists) ----
MODEL_WITH_LM_HEAD_MAPPING_NAMES ==
    << <<"bert", "BertForMaskedLM">>,
       <<"roberta", "RobertaForMaskedLM">> >>

MODEL_FOR_CAUSAL_LM_MAPPING_NAMES ==
    << <<"bert", "BertLMHeadModel">>,
       <<"roberta", "RobertaLMHeadModel">>,
       <<"gpt2", "GPT2LMHeadModel">> >>

BACKBONE_NAMES_NatAsDinat ==
    << <<"bit", "BitBackbone">>,
       <<"convnext", "ConvNextBackbone">>,
       <<"convnextv2", "ConvNextV2Backbone">>,
       <<"dinat", "DinatBackbone">>,
       <<"dinov2", "Dinov2Backbone">>,
       <<"focalnet", "FocalNetBackbone">>,
       <<"maskformer-swin", "MaskFormerSwinBackbone">>,
       <<"nat", "DinatBackbone">>,
       <<"resnet", "ResNetBackbone">>,
       <<"swin", "SwinBackbone">>,
       <<"timm_backbone", "TimmBackbone">>,
       <<"vitdet", "VitDetBackbone">> >>

MODEL_FOR_BACKBONE_MAPPING_NAMES ==
    << <<"bit", "BitBackbone">>,
       <<"convnext", "ConvNextBackbone">>,
       <<"convnextv2", "ConvNextV2Backbone">>,
       <<"dinat", "DinatBackbone">>,
       <<"dinov2", "Dinov2Backbone">>,
       <<"focalnet", "FocalNetBackbone">>,
       <<"maskformer-swin", "MaskFormerSwinBackbone">>,
       <<"nat", "NatBackbone">>,
       <<"resnet", "ResNetBackbone">>,
       <<"swin", "SwinBackbone">>,
       <<"timm_backbone", "TimmBackbone">>,
       <<"vitdet", "VitDetBackbone">> >>

\* the lazy mappings built at import time, by name
Mappings ==
    {"MODEL_WITH_LM_HEAD_MAPPING", "MODEL_FOR_CAUSAL_LM_MAPPING",
     "MODEL_FOR_BACKBONE_MAPPING"}

\* _LazyAutoMapping(CONFIG_MAPPING_NAMES, <table>): the table each mapping wraps
TableOf(m) ==
    CASE m = "MODEL_WITH_LM_HEAD_MAPPING"  -> MODEL_WITH_LM_HEAD_MAPPING_NAMES
      [] m = "MODEL_FOR_CAUSAL_LM_MAPPING" -> MODEL_FOR_CAUSAL_LM_MAPPING_NAMES
      [] m = "MODEL_FOR_BACKBONE_MAPPING"  -> MODEL_FOR_BACKBONE_MAPPING_NAMES

\* the facade classes and the mapping each is bound to (_model_mapping)
Facades ==
    {"_AutoModelWithLMHead", "AutoModelForCausalLM", "AutoBackbone"}

ModelMappingOf(cls) ==
    CASE cls = "_AutoModelWithLMHead" -> "MODEL_WITH_LM_HEAD_MAPPING"
      [] cls = "AutoModelForCausalLM" -> "MODEL_FOR_CAUSAL_LM_MAPPING"
      [] cls = "AutoBackbone"         -> "MODEL_FOR_BACKBONE_MAPPING"

\* OrderedDict operations
TableKeys(t) == {t[i][1] : i \in DOMAIN t}
TableGet(t, k) == t[CHOOSE i \in DOMAIN t : t[i][1] = k /\ \A j \in DOMAIN t : t[j][1] = k => j <= i][2]
KeyOrder(t) == [i \in DOMAIN t |-> t[i][1]]

\* ---- inputs ----
\* architecture keys a configuration may declare ("custom" is in no table)
ConfigKeys == {"bert", "gpt2", "nat", "custom"}
AllKeys ==
    ConfigKeys \cup UNION {TableKeys(TableOf(m)) : m \in Mappings}
\* classes a user may register for an additional key
UserClasses == {"CustomModel"}
\* keys a user registers: those of user-defined architectures
UserKeys == {"custom"}
\* pretrained sources and the architecture key of the configuration found there
PretrainedSources ==
    {"bert-base-uncased", "shi-labs/nat-mini-in1k-224"}
ModelTypeOf(src) ==
    CASE src = "bert-base-uncased"          -> "bert"
      [] src = "shi-labs/nat-mini-in1k-224" -> "nat"
ModelArgs == {<<>>, <<"arg0">>}
KwArgs == {{"revision"}}

NoArgs == [key |-> "None", src |-> "None", margs |-> <<>>, kwargs |-> {}]
ConfigArgs(k) == [key |-> k, src |-> "None", margs |-> <<>>, kwargs |-> {}]
PretrainedArgs(s, ma, kw) ==
    [key |-> ModelTypeOf(s), src |-> s, margs |-> ma, kwargs |-> kw]
Event(e, who, op, a) == [ev |-> e, who |-> who, op |-> op, args |-> a]
NoRet == [kind |-> "none", cls |-> NoClass, weights |-> "None",
          args |-> NoArgs, err |-> "None", keys |-> <<>>]

\* ---- _LazyAutoMapping ----
\* key in mapping: registered content or an entry of the wrapped table
Contains(m, k) ==
    k \in DOMAIN extra[m] \/ k \in TableKeys(TableOf(m))

\* first access of a table key: its class is not memoised yet
NeedsImport_NoMemo(m, k) ==
    /\ k \notin DOMAIN extra[m]
    /\ k \in TableKeys(TableOf(m))

NeedsImport(m, k) ==
    /\ k \notin DOMAIN extra[m]
    /\ k \in TableKeys(TableOf(m))
    /\ k \notin DOMAIN cache[m]

\* __getitem__: registered content first, then the memo, then the import
GetItem(m, k) ==
    IF k \in DOMAIN extra[m] THEN extra[m][k]
    ELSE IF NeedsImport(m, k) THEN TableGet(TableOf(m), k)
    ELSE IF k \in DOMAIN cache[m] THEN cache[m][k]
    ELSE NoClass

\* the memo after the keys ks of mapping m have been accessed
CacheAfter(m, ks) ==
    LET new == {k \in ks : NeedsImport(m, k)}
    IN  [cache EXCEPT ![m] =
            [k \in (DOMAIN cache[m]) \cup new |->
                IF k \in new THEN TableGet(TableOf(m), k) ELSE cache[m][k]]]

ImportsAfter(m, ks) ==
    [imports EXCEPT ![m] =
        [k \in AllKeys |->
            IF k \in ks /\ NeedsImport(m, k) THEN imports[m][k] + 1
            ELSE imports[m][k]]]

\* the import events of accessing the keys of sequence order, in that order
RECURSIVE ImportEvents(_, _)
ImportEvents(m, order) ==
    IF order = <<>> THEN <<>>
    ELSE LET k == Head(order)
             rest == ImportEvents(m, Tail(order))
         IN  IF NeedsImport(m, k)
             THEN <<Event("import", m, "resolve", ConfigArgs(k))>> \o rest
             ELSE rest

\* keys in iteration order: the table's order, then the registered ones
RECURSIVE SetToSeq(_)
SetToSeq(S) ==
    IF S = {} THEN <<>>
    ELSE LET x == CHOOSE y \in S : TRUE IN <<x>> \o SetToSeq(S \ {x})

IterOrder(m) ==
    KeyOrder(TableOf(m)) \o SetToSeq(DOMAIN extra[m])
Contains_keys(m) == {k \in AllKeys : Contains(m, k)}

\* ---- _BaseAutoModelClass ----
\* from_config / from_pretrained of facade cls on arguments a: the mapping is
\* asked for the configuration's key; a hit is instantiated (and, for
\* from_pretrained, loaded from the source), a miss raises
BaseEvents(cls, op, a) ==
    LET m == ModelMappingOf(cls)
    IN  IF Contains(m, a.key)
        THEN ImportEvents(m, <<a.key>>)
             \o <<Event("construct", GetItem(m, a.key), op, a)>>
             \o (IF op = "from_pretrained"
                 THEN <<Event("load_weights", GetItem(m, a.key), op, a)>>
                 ELSE <<>>)
        ELSE <<Event("raise", "ValueError", op, a)>>

BaseRet(cls, op, a) ==
    LET m == ModelMappingOf(cls)
    IN  IF Contains(m, a.key)
        THEN [NoRet EXCEPT !.kind = "model", !.cls = GetItem(m, a.key),
                           !.weights = IF op = "from_pretrained" THEN a.src
                                       ELSE "random",
                           !.args = a]
        ELSE [NoRet EXCEPT !.kind = "error", !.err = "ValueError", !.args = a]

BaseCall(cls, op, a, before) ==
    LET m == ModelMappingOf(cls)
    IN  /\ events' = before \o BaseEvents(cls, op, a)
        /\ ret' = BaseRet(cls, op, a)
        /\ cache' = CacheAfter(m, {a.key})
        /\ imports' = ImportsAfter(m, {a.key})
        /\ extra' = extra

Ops == {"from_config", "from_pretrained"}
ArgsOf(op) ==
    IF op = "from_config" THEN {ConfigArgs(k) : k \in ConfigKeys}
    ELSE {PretrainedArgs(s, ma, kw) :
            s \in PretrainedSources, ma \in ModelArgs, kw \in KwArgs}

\* <Facade>.from_config(config) / <Facade>.from_pretrained(src, *args, **kw)
FacadeCall(cls, op, a) ==
    /\ pc = "idle"
    /\ cur' = [cls |-> cls, op |-> op, args |-> a]
    /\ BaseCall(cls, op, a, <<>>)
    /\ pc' = "idle"
    /\ UNCHANGED <<natVars, dpVars, topVars>>

\* ---- AutoModelWithLMHead (deprecated) ----
DeprecationNames ==
    {"AutoModelForCausalLM", "AutoModelForMaskedLM", "AutoModelForSeq2SeqLM"}

\* warnings.warn(..., FutureWarning): first statement of both methods
DeprecatedWarn(op, a) ==
    /\ pc = "idle"
    /\ cur' = [cls |-> "AutoModelWithLMHead", op |-> op, args |-> a]
    /\ events' = <<[Event("warn", "FutureWarning", op, NoArgs)
                        EXCEPT !.args.kwargs = DeprecationNames]>>
    /\ ret' = NoRet
    /\ pc' = "warned"
    /\ UNCHANGED <<cache, imports, extra, natVars, dpVars, topVars>>

\* what super().<op>(...) is called with
Forwarded_DropsOptions(c) ==
    [cls |-> "_AutoModelWithLMHead", op |-> c.op,
     args |-> [c.args EXCEPT !.margs = <<>>, !.kwargs = {}]]

Forwarded(c) ==
    [cls |-> "_AutoModelWithLMHead", op |-> c.op, args |-> c.args]

\* return super().<op>(...)
DeprecatedDelegate ==
    /\ pc = "warned"
    /\ LET f == Forwarded(cur)
       IN  BaseCall(f.cls, f.op, f.args,
                    events \o <<Event("delegate", f.cls, f.op, f.args)>>)
    /\ pc' = "idle"
    /\ UNCHANGED <<cur, natVars, dpVars, topVars>>

\* ---- direct use of a lazy mapping ----
MappingOp(m, kind, k) ==
    [cls |-> m, op |-> kind, args |-> ConfigArgs(k)]

\* key in MAPPING
MappingContains(m, k) ==
    /\ pc = "idle"
    /\ cur' = MappingOp(m, "__contains__", k)
    /\ events' = <<>>
    /\ ret' = [NoRet EXCEPT !.kind = IF Contains(m, k) THEN "true" ELSE "false"]
    /\ UNCHANGED <<cache, imports, extra, pc, natVars, dpVars, topVars>>

\* MAPPING[key]
MappingGetItem(m, k) ==
    /\ pc = "idle"
    /\ cur' = MappingOp(m, "__getitem__", k)
    /\ events' = IF Contains(m, k) THEN ImportEvents(m, <<k>>)
                 ELSE <<Event("raise", "KeyError", "__getitem__", ConfigArgs(k))>>
    /\ ret' = IF Contains(m, k)
              THEN [NoRet EXCEPT !.kind = "class", !.cls = GetItem(m, k)]
              ELSE [NoRet EXCEPT !.kind = "error", !.err = "KeyError"]
    /\ cache' = CacheAfter(m, {k})
    /\ imports' = ImportsAfter(m, {k})
    /\ UNCHANGED <<extra, pc, natVars, dpVars, topVars>>

\* for key in MAPPING / MAPPING.items(): every key is accessed
MappingIterate(m) ==
    /\ pc = "idle"
    /\ cur' = MappingOp(m, "__iter__", "None")
    /\ events' = ImportEvents(m, IterOrder(m))
    /\ ret' = [NoRet EXCEPT !.kind = "keys", !.keys = IterOrder(m)]
    /\ cache' = CacheAfter(m, Contains_keys(m))
    /\ imports' = ImportsAfter(m, Contains_keys(m))
    /\ UNCHANGED <<extra, pc, natVars, dpVars, topVars>>

\* MAPPING.register(key, cls): an additional key for a user-defined class
MappingRegister(m, k, c) ==
    /\ pc = "idle"
    /\ k \notin TableKeys(TableOf(m))
    /\ k \notin DOMAIN extra[m]
    /\ cur' = MappingOp(m, "register", k)
    /\ events' = <<>>
    /\ ret' = NoRet
    /\ extra' = [extra EXCEPT ![m] =
                    [x \in (DOMAIN extra[m]) \cup {k} |->
                        IF x = k THEN c ELSE extra[m][x]]]
    /\ UNCHANGED <<cache, imports, pc, natVars, dpVars, topVars>>

NoCall == [cls |-> "None", op |-> "None", args |-> NoArgs]
EmptyMap == [k \in {} |-> NoClass]

RegistryInit ==
    /\ cache = [m \in Mappings |-> EmptyMap]
    /\ imports = [m \in Mappings |-> [k \in AllKeys |-> 0]]
    /\ extra = [m \in Mappings |-> EmptyMap]
    /\ pc = "idle"
    /\ cur = NoCall
    /\ events = <<>>
    /\ ret = NoRet

RegistryNext ==
    \/ \E cls \in Facades, op \in Ops : \E a \in ArgsOf(op) : FacadeCall(cls, op, a)
    \/ \E op \in Ops : \E a \in ArgsOf(op) : DeprecatedWarn(op, a)
    \/ DeprecatedDelegate
    \/ \E m \in Mappings, k \in ConfigKeys : MappingContains(m, k)
    \/ \E m \in Mappings, k \in ConfigKeys : MappingGetItem(m, k)
    \/ \E m \in Mappings : MappingIterate(m)
    \/ \E m \in Mappings, k \in UserKeys, c \in UserClasses : MappingRegister(m, k, c)

(***************************************************************************)
(* Part 2.  NAT building blocks: construction and forward pass             *)
(***************************************************************************)

\* ---- bounds of the enumerated inputs ----
MaxSide == 9          \* heights and widths 1..MaxSide (plus the documented ones)
MaxDim == 8           \* attention widths 1..MaxDim (plus the documented one)
MaxHeads == 7         \* head counts 1..MaxHeads

Sides == (1..MaxSide) \cup {28, 224}
Batches == {1, 2}
Channels == {1, 3}
PatchSizes == {2, 4, 8}
EmbedDims == {2, 5, 64}
DownDims == {2, 3, 96}
AttnDims == (1..MaxDim) \cup {96}
HeadCounts == 1..MaxHeads
KernelSizes == {3, 7}

\* ---- tensors (shapes) and the framework primitives ----
\* Tensor.permute(*axes), axes 0-based
Permute(shape, axes) == [i \in 1..Len(axes) |-> shape[axes[i] + 1]]

\* nn.Conv2d(in, out, kernel_size, stride, padding, pad_mode="pad")
Conv2d(cin, cout, k, st, p) ==
    [cin |-> cin, cout |-> cout, kernel |-> k, stride |-> st, padding |-> p]

\* spatial size after a padded, strided convolution
ConvOut(n, c) == ((n + 2 * c.padding - c.kernel) \div c.stride) + 1

BadShape == <<>>

\* conv(x) on a channel-first (b, c, h, w) tensor
ConvApply(c, shape) ==
    IF shape = BadShape \/ Len(shape) # 4 THEN BadShape
    ELSE IF shape[2] # c.cin THEN BadShape
    ELSE <<shape[1], c.cout, ConvOut(shape[3], c), ConvOut(shape[4], c)>>

\* nn.SequentialCell(cells)(x)
RECURSIVE SequentialApply(_, _)
SequentialApply(cells, shape) ==
    IF cells = <<>> THEN shape
    ELSE SequentialApply(Tail(cells), ConvApply(Head(cells), shape))

\* nn.LayerNorm([n]) over the last axis
LayerNormApply(n, shape) ==
    IF shape = BadShape THEN BadShape
    ELSE IF shape[Len(shape)] # n THEN BadShape
    ELSE shape

\* ---- objects ----
NoObj ==
    [cls |-> "None", err |-> "None", built |-> <<>>, num_channels |-> 0,
     projection |-> <<>>, norm |-> 0, dim |-> 0,
     num_attention_heads |-> 0, attention_head_size |-> 0,
     all_head_size |-> 0, kernel_size |-> 0, rpb |-> <<>>, qkv |-> <<>>]
NoCfg ==
    [patch_size |-> 0, num_channels |-> 0, embed_dim |-> 0,
     dim |-> 0, num_heads |-> 0, kernel_size |-> 0]
NoOut == [shape |-> BadShape, err |-> "None"]

\* ---- NatPatchEmbeddings.__init__ ----
PatchSizeSupported_AtLeast4(patch_size) == patch_size >= 4

PatchSizeSupported(patch_size) == patch_size = 4

NatPatchEmbeddings_init(c) ==
    IF ~PatchSizeSupported(c.patch_size)
    THEN [NoObj EXCEPT !.cls = "NatPatchEmbeddings", !.err = "ValueError",
                       !.num_channels = c.num_channels]
    ELSE [NoObj EXCEPT
            !.cls = "NatPatchEmbeddings",
            !.num_channels = c.num_channels,
            !.projection =
                <<Conv2d(c.num_channels, c.embed_dim \div 2, 3, 2, 1),
                  Conv2d(c.embed_dim \div 2, c.embed_dim, 3, 2, 1)>>,
            !.built = <<"projection">>]

\* ---- NatEmbeddings.__init__ ----
NatEmbeddings_init(c) ==
    LET pe == NatPatchEmbeddings_init(c)
    IN  IF pe.err # "None" THEN [pe EXCEPT !.cls = "NatEmbeddings"]
        ELSE [pe EXCEPT !.cls = "NatEmbeddings",
                        !.norm = c.embed_dim,
                        !.built = pe.built \o <<"norm", "dropout">>]

\* ---- NatDownsampler.__init__ ----
NatDownsampler_init_SameWidth(dim) ==
    [NoObj EXCEPT !.cls = "NatDownsampler",
                  !.dim = dim,
                  !.projection = <<Conv2d(dim, dim, 3, 2, 1)>>,
                  !.norm = dim,
                  !.built = <<"reduction", "norm">>]

NatDownsampler_init(dim) ==
    [NoObj EXCEPT !.cls = "NatDownsampler",
                  !.dim = dim,
                  !.projection = <<Conv2d(dim, 2 * dim, 3, 2, 1)>>,
                  !.norm = 2 * dim,
                  !.built = <<"reduction", "norm">>]

\* ---- NeighborhoodAttention.__init__ ----
HeadsDivide_Swapped(dim, num_heads) == num_heads % dim = 0

HeadsDivide(dim, num_heads) == dim % num_heads = 0

NeighborhoodAttention_init(dim, num_heads, kernel_size) ==
    IF ~HeadsDivide(dim, num_heads)
    THEN [NoObj EXCEPT !.cls = "NeighborhoodAttention", !.err = "ValueError"]
    ELSE LET ahs == dim \div num_heads
             all == num_heads * ahs
         IN  [NoObj EXCEPT
                !.cls = "NeighborhoodAttention",
                !.num_attention_heads = num_heads,
                !.attention_head_size = ahs,
                !.all_head_size = all,
                !.kernel_size = kernel_size,
                !.rpb = <<num_heads, 2 * kernel_size - 1, 2 * kernel_size - 1>>,
                !.qkv = <<all, all>>,
                !.built = <<"rpb", "query", "key", "value", "dropout">>]

\* ---- construction (a constructor that raises leaves no usable object) ----
Built(o) ==
    /\ obj' = o
    /\ npc' = IF o.err = "None" THEN "built" ELSE "failed"
    /\ input' = BadShape
    /\ trace' = <<>>
    /\ out' = NoOut
    /\ UNCHANGED <<regVars, dpVars, topVars>>

NewPatchEmbeddings(ps, nc, ed) ==
    /\ npc = "start"
    /\ cfg' = [NoCfg EXCEPT !.patch_size = ps, !.num_channels = nc, !.embed_dim = ed]
    /\ Built(NatPatchEmbeddings_init(cfg'))

NewEmbeddings(ps, nc, ed) ==
    /\ npc = "start"
    /\ cfg' = [NoCfg EXCEPT !.patch_size = ps, !.num_channels = nc, !.embed_dim = ed]
    /\ Built(NatEmbeddings_init(cfg'))

NewDownsampler(dim) ==
    /\ npc = "start"
    /\ cfg' = [NoCfg EXCEPT !.dim = dim]
    /\ Built(NatDownsampler_init(dim))

NewAttention(dim, nh, ks) ==
    /\ npc = "start"
    /\ cfg' = [NoCfg EXCEPT !.dim = dim, !.num_heads = nh, !.kernel_size = ks]
    /\ Built(NeighborhoodAttention_init(dim, nh, ks))

\* ---- forward pass ----
PixelShapes == {<<b, c, h, w>> : b \in Batches, c \in Channels, h \in Sides, w \in Sides}
FeatureShapes == {<<b, h, w, c>> : b \in Batches, h \in Sides, w \in Sides, c \in DownDims}

\* module(x): a forward pass starts on a constructed module
Forward(shape) ==
    /\ npc \in {"built", "done", "raised"}
    /\ \/ obj.cls \in {"NatPatchEmbeddings", "NatEmbeddings"} /\ shape \in PixelShapes
       \/ obj.cls = "NatDownsampler" /\ shape \in FeatureShapes
    /\ input' = shape
    /\ trace' = <<>>
    /\ out' = NoOut
    /\ npc' = "called"
    /\ UNCHANGED <<cfg, obj, regVars, dpVars, topVars>>

\* NatPatchEmbeddings.construct: the channel check
ChannelsMatch_Ignored(shape, o) == TRUE

ChannelsMatch(shape, o) == shape[2] = o.num_channels

PatchCheck ==
    /\ npc = "called"
    /\ obj.cls \in {"NatPatchEmbeddings", "NatEmbeddings"}
    /\ IF ChannelsMatch(input, obj)
       THEN npc' = "checked" /\ out' = out
       ELSE npc' = "raised" /\ out' = [out EXCEPT !.err = "ValueError"]
    /\ UNCHANGED <<cfg, obj, input, trace, regVars, dpVars, topVars>>

\* embeddings = self.projection(pixel_values)
PatchProjection ==
    /\ npc = "checked"
    /\ LET sh == SequentialApply(obj.projection, input)
       IN  IF sh = BadShape
           THEN npc' = "raised" /\ out' = [out EXCEPT !.err = "RuntimeError"]
                /\ trace' = trace
           ELSE npc' = "projected" /\ out' = [out EXCEPT !.shape = sh]
                /\ trace' = Append(trace, "projection")
    /\ UNCHANGED <<cfg, obj, input, regVars, dpVars, topVars>>

\* embeddings = embeddings.permute(0, 2, 3, 1); return
PatchAxes_Identity == <<0, 1, 2, 3>>

PatchAxes == <<0, 2, 3, 1>>

PatchPermute ==
    /\ npc = "projected"
    /\ out' = [out EXCEPT !.shape = Permute(out.shape, PatchAxes)]
    /\ trace' = Append(trace, "permute")
    /\ npc' = IF obj.cls = "NatPatchEmbeddings" THEN "done" ELSE "embedded"
    /\ UNCHANGED <<cfg, obj, input, regVars, dpVars, topVars>>

\* NatEmbeddings.construct: embeddings = self.norm(embeddings)
EmbeddingsNorm ==
    /\ npc = "embedded"
    /\ LET sh == LayerNormApply(obj.norm, out.shape)
       IN  IF sh = BadShape
           THEN npc' = "raised" /\ out' = [out EXCEPT !.err = "RuntimeError"]
                /\ trace' = trace
           ELSE npc' = "normed" /\ out' = [out EXCEPT !.shape = sh]
                /\ trace' = Append(trace, "norm")
    /\ UNCHANGED <<cfg, obj, input, regVars, dpVars, topVars>>

\* NatEmbeddings.construct: embeddings = self.dropout(embeddings); return
EmbeddingsDropout ==
    /\ npc = "normed"
    /\ obj.cls = "NatEmbeddings"
    /\ trace' = Append(trace, "dropout")
    /\ npc' = "done"
    /\ UNCHANGED <<cfg, obj, input, out, regVars, dpVars, topVars>>

\* NatDownsampler.construct:
\*   self.reduction(input_feature.permute(0, 3, 1, 2)).permute(0, 2, 3, 1)
DownsamplerReduce ==
    /\ npc = "called"
    /\ obj.cls = "NatDownsampler"
    /\ LET cf == Permute(input, <<0, 3, 1, 2>>)
           sh == SequentialApply(obj.projection, cf)
       IN  IF sh = BadShape
           THEN npc' = "raised" /\ out' = [out EXCEPT !.err = "RuntimeError"]
                /\ trace' = <<"permute">>
           ELSE npc' = "reduced"
                /\ out' = [out EXCEPT !.shape = Permute(sh, <<0, 2, 3, 1>>)]
                /\ trace' = <<"permute", "reduction", "permute">>
    /\ UNCHANGED <<cfg, obj, input, regVars, dpVars, topVars>>

\* NatDownsampler.construct: input_feature = self.norm(input_feature); return
DownsamplerNorm ==
    /\ npc = "reduced"
    /\ LET sh == LayerNormApply(obj.norm, out.shape)
       IN  IF sh = BadShape
           THEN npc' = "raised" /\ out' = [out EXCEPT !.err = "RuntimeError"]
                /\ trace' = trace
           ELSE npc' = "done" /\ out' = [out EXCEPT !.shape = sh]
                /\ trace' = Append(trace, "norm")
    /\ UNCHANGED <<cfg, obj, input, regVars, dpVars, topVars>>

NatInit ==
    /\ npc = "start"
    /\ cfg = NoCfg
    /\ obj = NoObj
    /\ input = BadShape
    /\ trace = <<>>
    /\ out = NoOut

NatNext ==
    \/ \E ps \in PatchSizes, nc \in Channels, ed \in EmbedDims : NewPatchEmbeddings(ps, nc, ed)
    \/ \E ps \in PatchSizes, nc \in Channels, ed \in EmbedDims : NewEmbeddings(ps, nc, ed)
    \/ \E dim \in DownDims : NewDownsampler(dim)
    \/ \E dim \in AttnDims, nh \in HeadCounts, ks \in KernelSizes : NewAttention(dim, nh, ks)
    \/ \E shape \in PixelShapes \cup FeatureShapes : Forward(shape)
    \/ PatchCheck
    \/ PatchProjection
    \/ PatchPermute
    \/ EmbeddingsNorm
    \/ EmbeddingsDropout
    \/ DownsamplerReduce
    \/ DownsamplerNorm

(***************************************************************************)
(* Part 3.  drop_path and NatDropPath                                      *)
(***************************************************************************)

\* ---- bounds of the enumerated inputs ----
MaxElems == 3         \* tensors of at most MaxElems entries
MaxRank == 3          \* of rank 1..MaxRank
ProbDen == 4          \* probabilities and random draws are multiples of 1/ProbDen

Values == {-1, 2}                 \* entries of the input tensors
NoProb == -1                      \* drop_prob = None (NatDropPath's default)

RECURSIVE Prod(_)
Prod(shape) == IF shape = <<>> THEN 1 ELSE Head(shape) * Prod(Tail(shape))

TensorShapes ==
    {sh \in UNION {[1..r -> 1..MaxElems] : r \in 1..MaxRank} : Prod(sh) <= MaxElems}

\* a rational number n/d; a tensor is a shape and its entries in row-major order
Rat(n, d) == [n |-> n, d |-> d]
Tensor(shape, data) == [shape |-> shape, data |-> data]
Tensors ==
    UNION {{Tensor(sh, [i \in 1..Prod(sh) |-> Rat(v[i], 1)]) :
                v \in [1..Prod(sh) -> Values]} : sh \in TensorShapes}
NoTensor == Tensor(<<>>, <<>>)

\* row-major multi-index (0-based) of flat position i (1-based) in shape
RECURSIVE Unflatten(_, _)
Unflatten(i0, shape) ==
    IF shape = <<>> THEN <<>>
    ELSE LET rest == Prod(Tail(shape))
         IN  <<i0 \div rest>> \o Unflatten(i0 % rest, Tail(shape))

RECURSIVE Flatten(_, _)
Flatten(idx, shape) ==
    IF shape = <<>> THEN 0
    ELSE Head(idx) * Prod(Tail(shape)) + Flatten(Tail(idx), Tail(shape))

\* position in a tensor of shape small that broadcasting pairs with flat
\* position i of a tensor of shape big (same rank, axes of size 1 repeat)
BroadcastPos(i, big, small) ==
    LET idx == Unflatten(i - 1, big)
        sidx == [a \in 1..Len(small) |-> IF small[a] = 1 THEN 0 ELSE idx[a]]
    IN  Flatten(sidx, small) + 1

\* ---- drop_path ----
\* if drop_prob == 0.0 or not training: return input
PassThrough_Both(drop_prob, training) == drop_prob = 0 /\ ~training

PassThrough(drop_prob, training) == drop_prob = 0 \/ ~training

\* shape = (input.shape[0],) + (1,) * (input.ndim - 1)
MaskShape_PerElement(shape) == shape

MaskShape(shape) == [a \in 1..Len(shape) |-> IF a = 1 THEN shape[1] ELSE 1]

\* random_tensor = keep_prob + ops.rand(shape); random_tensor.floor_()
Binarize(drop_prob, r) == ((ProbDen - drop_prob) + r) \div ProbDen

\* output = input.div(keep_prob) * random_tensor
ScaleEntry(x, drop_prob, bit) ==
    Rat(x.n * ProbDen * bit, x.d * (ProbDen - drop_prob))

DropPathOutput(t, drop_prob, rand) ==
    Tensor(t.shape,
           [i \in 1..Prod(t.shape) |->
               ScaleEntry(t.data[i], drop_prob,
                          Binarize(drop_prob,
                                   rand[BroadcastPos(i, t.shape, MaskShape(t.shape))]))])

\* drop_path(input, drop_prob, training), up to the early return
DropPathEnter ==
    /\ dpc \in {"drop_path", "NatDropPath"}
    /\ IF PassThrough(dp_prob, dp_train)
       THEN dpc' = "done" /\ dp_out' = dp_in
       ELSE IF dp_prob = NoProb
       THEN dpc' = "TypeError" /\ dp_out' = dp_out
       ELSE dpc' = "entered" /\ dp_out' = dp_out
    /\ UNCHANGED <<dp_in, dp_prob, dp_train, dp_rand, regVars, natVars, topVars>>

\* ops.rand(shape): one uniform draw in [0, 1) per entry of the mask
DropPathRand ==
    /\ dpc = "entered"
    /\ \E r \in [1..Prod(MaskShape(dp_in.shape)) -> 0..(ProbDen - 1)] : dp_rand' = r
    /\ dpc' = "drawn"
    /\ UNCHANGED <<dp_in, dp_prob, dp_train, dp_out, regVars, natVars, topVars>>

\* floor_, div, multiply, return
DropPathScale ==
    /\ dpc = "drawn"
    /\ dp_out' = DropPathOutput(dp_in, dp_prob, dp_rand)
    /\ dpc' = "done"
    /\ UNCHANGED <<dp_in, dp_prob, dp_train, dp_rand, regVars, natVars, topVars>>

\* the inputs: drop_path is called directly with a number; NatDropPath passes
\* its self.drop_prob (None unless given) and self.training
DropPathInit ==
    /\ dpc \in {"drop_path", "NatDropPath"}
    /\ dp_in \in Tensors
    /\ dp_prob \in (0..(ProbDen - 1)) \cup (IF dpc = "NatDropPath" THEN {NoProb} ELSE {})
    /\ dp_train \in BOOLEAN
    /\ dp_rand = <<>>
    /\ dp_out = NoTensor

DropPathNext ==
    \/ DropPathEnter
    \/ DropPathRand
    \/ DropPathScale

DropPathIdle ==
    /\ dpc = "idle"
    /\ dp_in = NoTensor
    /\ dp_prob = 0
    /\ dp_train = FALSE
    /\ dp_rand = <<>>
    /\ dp_out = NoTensor

(***************************************************************************)
(* Part 4.  NeighborhoodAttention and NeighborhoodAttentionModule          *)
(***************************************************************************)

\* a local variable: v is computed once and F is evaluated on its value
Let(v, F(_)) == CHOOSE r \in {F(x) : x \in {v}} : TRUE

\* ---- the neighborhood-attention kernel ----
\* natten2dqkrpb and natten2dav are module-level names: "stub" is what the
\* module binds them to (both raise), "natten" is natten.functional put in
\* their place (the import the module keeps commented out)
Kernels == {"stub", "natten"}

NoErr == "None"
Ok(shape) == [err |-> NoErr, shape |-> shape]
Raise(e) == [err |-> e, shape |-> BadShape]

\* natten2dqkrpb(query, key, rpb, kernel_size, dilation): the logits, one per
\* position of the kernel_size x kernel_size neighborhood
natten2dqkrpb_Fallback(k, query, kernel_size) ==
    IF query[3] < kernel_size \/ query[4] < kernel_size
    THEN Raise("RuntimeError")
    ELSE Ok(<<query[1], query[2], query[3], query[4], kernel_size * kernel_size>>)

natten2dqkrpb(k, query, kernel_size) ==
    IF k = "stub" THEN Raise("OptionalDependencyNotAvailable")
    ELSE IF query[3] < kernel_size \/ query[4] < kernel_size
    THEN Raise("RuntimeError")
    ELSE Ok(<<query[1], query[2], query[3], query[4], kernel_size * kernel_size>>)

\* natten2dav(attention_probs, value, kernel_size, dilation)
natten2dav(k, probs, value) ==
    IF k = "stub" THEN Raise("OptionalDependencyNotAvailable")
    ELSE Ok(value)

\* nn.Dense(in, out)(x), the layer given as <<in, out>>
DenseApply(d, shape) ==
    IF shape = BadShape THEN BadShape
    ELSE IF shape[Len(shape)] # d[1] THEN BadShape
    ELSE [i \in 1..Len(shape) |-> IF i = Len(shape) THEN d[2] ELSE shape[i]]

\* ---- NeighborhoodAttentionModule.__init__ ----
NeighborhoodAttentionModule_init(dim, num_heads, kernel_size) ==
    [self |-> NeighborhoodAttention_init(dim, num_heads, kernel_size),
     output |-> [dense |-> <<dim, dim>>],
     pruned_heads |-> {}]

\* ---- NeighborhoodAttention.transpose_for_scores ----
\* x.view(x.shape[:-1] + (heads, head_size)).permute(0, 3, 1, 2, 4)
transpose_for_scores(a, x) ==
    IF x = BadShape THEN BadShape
    ELSE IF x[4] # a.num_attention_heads * a.attention_head_size THEN BadShape
    ELSE Permute(<<x[1], x[2], x[3], a.num_attention_heads, a.attention_head_size>>,
                 <<0, 3, 1, 2, 4>>)

\* ---- NeighborhoodAttention.construct ----
\* result: the error or the context layer, the attention probabilities and
\* the operations run, in order
AttnResult(e, shape, probs, ran) ==
    [err |-> e, shape |-> shape, probs |-> probs, ran |-> ran]

NeighborhoodAttention_construct(a, hidden_states, output_attentions, k) ==
    LET query_layer == transpose_for_scores(a, DenseApply(a.qkv, hidden_states))
        projected == <<"query", "key", "value">>
    IN  IF query_layer = BadShape
        THEN AttnResult("RuntimeError", BadShape, BadShape, <<"query">>)
        ELSE
        LET attention_scores == natten2dqkrpb(k, query_layer, a.kernel_size)
            scored == projected \o <<"scale", "natten2dqkrpb">>
        IN  IF attention_scores.err # NoErr
            THEN AttnResult(attention_scores.err, BadShape, BadShape, scored)
            ELSE
            LET attention_probs == attention_scores.shape
                context == natten2dav(k, attention_probs, query_layer)
                aggregated == scored \o <<"softmax", "dropout", "natten2dav">>
            IN  IF context.err # NoErr
                THEN AttnResult(context.err, BadShape, BadShape, aggregated)
                ELSE
                LET merged == Permute(context.shape, <<0, 2, 3, 1, 4>>)
                IN  AttnResult(NoErr,
                               <<merged[1], merged[2], merged[3], a.all_head_size>>,
                               IF output_attentions THEN attention_probs ELSE BadShape,
                               aggregated \o <<"permute", "view">>)

\* ---- NeighborhoodAttentionModule.construct ----
\* self.output(self.self(hidden_states)[0]): dense, dropout
NeighborhoodAttentionModule_construct(m, hidden_states, output_attentions, k) ==
    Let(NeighborhoodAttention_construct(m.self, hidden_states, output_attentions, k),
        LAMBDA self_outputs :
            IF self_outputs.err # NoErr THEN self_outputs
            ELSE LET attention_output == DenseApply(m.output.dense, self_outputs.shape)
                 IN  IF attention_output = BadShape
                     THEN AttnResult("RuntimeError", BadShape, BadShape,
                                     Append(self_outputs.ran, "dense"))
                     ELSE AttnResult(NoErr, attention_output, self_outputs.probs,
                                     self_outputs.ran \o <<"dense", "dropout">>))

\* ---- find_pruneable_heads_and_indices (ms_utils) ----
\* heads already pruned are dropped from the request; a head's row in the
\* mask is its index less the pruned heads before it; index lists the
\* positions of the rows that stay
FoundHeads(heads, already_pruned_heads) == heads \ already_pruned_heads

HeadRow(head, already_pruned_heads) ==
    head - Cardinality({h \in already_pruned_heads : h < head})

find_pruneable_heads_and_indices(heads, n_heads, head_size, already_pruned_heads) ==
    LET found == FoundHeads(heads, already_pruned_heads)
        rows == {HeadRow(h, already_pruned_heads) : h \in found}
    IN  IF \E r \in rows : r >= n_heads
        THEN [err |-> "IndexError", heads |-> {}, index |-> {}]
        ELSE [err |-> NoErr, heads |-> found,
              index |-> {i \in 0..(n_heads * head_size - 1) :
                            (i \div head_size) \notin rows}]

\* ---- prune_linear_layer (ms_utils) ----
\* keeps the entries of index along axis: 0 the outputs, 1 the inputs
prune_linear_layer(layer, index, axis) ==
    IF axis = 0 THEN <<layer[1], Cardinality(index)>>
    ELSE <<Cardinality(index), layer[2]>>

\* ---- NeighborhoodAttentionModule.prune_heads ----
\* self.pruned_heads = self.pruned_heads.union(heads)
PrunedHeadsUnion_Forgets(pruned_heads, heads) == pruned_heads

PrunedHeadsUnion(pruned_heads, heads) == pruned_heads \cup heads

\* self.self.num_attention_heads - len(heads)
HeadsLeft_Same(num_attention_heads, heads) == num_attention_heads

HeadsLeft(num_attention_heads, heads) == num_attention_heads - Cardinality(heads)

\* the module after prune_heads(heads), and the error raised if any
prune_heads(m, heads) ==
    IF heads = {} THEN [err |-> NoErr, m |-> m]
    ELSE
    LET found == find_pruneable_heads_and_indices(
                     heads, m.self.num_attention_heads,
                     m.self.attention_head_size, m.pruned_heads)
        num_attention_heads == HeadsLeft(m.self.num_attention_heads, found.heads)
    IN  IF found.err # NoErr THEN [err |-> found.err, m |-> m]
        ELSE [err |-> NoErr,
              m |-> [m EXCEPT
                  !.self.qkv = prune_linear_layer(m.self.qkv, found.index, 0),
                  !.output.dense = prune_linear_layer(m.output.dense, found.index, 1),
                  !.self.num_attention_heads = num_attention_heads,
                  !.self.all_head_size =
                      m.self.attention_head_size * num_attention_heads,
                  !.pruned_heads = PrunedHeadsUnion(m.pruned_heads, found.heads)]]

\* ---- the scenarios ----
MaxPrune == 2         \* head indices 0..MaxPrune are asked to be pruned

AttnSides == {2, 7}
\* inputs of the module's width, and some one channel too wide
AttnInputs(dim) == {<<1, h, w, c>> : h \in AttnSides, w \in AttnSides, c \in {dim, dim + 1}}
HeadSets == {hs \in SUBSET (0..MaxPrune) : Cardinality(hs) <= 2}

NoACall == [op |-> "None", shape |-> BadShape, output_attentions |-> FALSE,
            heads |-> {}, prior |-> {}]
NoAOut == AttnResult(NoErr, BadShape, BadShape, <<>>)

\* the modules that construct without error
AttentionModules ==
    {NeighborhoodAttentionModule_init(dim, nh, ks) :
        dim \in AttnDims, nh \in HeadCounts, ks \in KernelSizes}

AttentionInit ==
    /\ apc = "built"
    /\ att \in {m \in AttentionModules : m.self.err = "None"}
    /\ acall = NoACall
    /\ aout = NoAOut

AttentionIdle ==
    /\ apc = "idle"
    /\ att = NeighborhoodAttentionModule_init(1, 1, 3)
    /\ acall = NoACall
    /\ aout = NoAOut

\* a direct call of one of the two kernel functions
KernelCall(fn) ==
    /\ apc \in {"built", "returned", "raised"}
    /\ LET q == <<1, att.self.num_attention_heads, 7, 7, att.self.attention_head_size>>
           r == IF fn = "natten2dqkrpb"
                THEN natten2dqkrpb(kernel, q, att.self.kernel_size)
                ELSE natten2dav(kernel, q, q)
       IN  /\ acall' = [NoACall EXCEPT !.op = fn, !.shape = q]
           /\ aout' = AttnResult(r.err, r.shape, BadShape, <<fn>>)
           /\ apc' = IF r.err = NoErr THEN "returned" ELSE "raised"
    /\ UNCHANGED <<att, kernel, mpc, mcfg, model, mcall, mout, clsVars,
                   regVars, natVars, dpVars>>

\* NeighborhoodAttention.construct(hidden_states, output_attentions)
SelfAttentionCall(shape, oa) ==
    /\ apc \in {"built", "returned", "raised"}
    /\ acall' = [NoACall EXCEPT !.op = "NeighborhoodAttention.construct",
                                !.shape = shape, !.output_attentions = oa]
    /\ aout' = NeighborhoodAttention_construct(att.self, shape, oa, kernel)
    /\ apc' = IF aout'.err = NoErr THEN "returned" ELSE "raised"
    /\ UNCHANGED <<att, kernel, mpc, mcfg, model, mcall, mout, clsVars,
                   regVars, natVars, dpVars>>

\* NeighborhoodAttentionModule.construct(hidden_states, output_attentions)
ModuleCall(shape, oa) ==
    /\ apc \in {"built", "returned", "raised"}
    /\ acall' = [NoACall EXCEPT !.op = "NeighborhoodAttentionModule.construct",
                                !.shape = shape, !.output_attentions = oa]
    /\ aout' = NeighborhoodAttentionModule_construct(att, shape, oa, kernel)
    /\ apc' = IF aout'.err = NoErr THEN "returned" ELSE "raised"
    /\ UNCHANGED <<att, kernel, mpc, mcfg, model, mcall, mout, clsVars,
                   regVars, natVars, dpVars>>

\* NeighborhoodAttentionModule.prune_heads(heads); prior remembers the heads
\* of the call before when that call was a prune_heads that returned
PruneHeads(heads) ==
    /\ apc \in {"built", "returned", "raised"}
    /\ LET r == prune_heads(att, heads)
       IN  /\ att' = r.m
           /\ aout' = AttnResult(r.err, BadShape, BadShape, <<>>)
           /\ apc' = IF r.err = NoErr THEN "returned" ELSE "raised"
    /\ acall' = [NoACall EXCEPT
                    !.op = "prune_heads", !.heads = heads,
                    !.prior = IF acall.op = "prune_heads" /\ apc = "returned"
                              THEN {acall.heads} ELSE {}]
    /\ UNCHANGED <<kernel, mpc, mcfg, model, mcall, mout, clsVars,
                   regVars, natVars, dpVars>>

AttentionNext ==
    \/ \E fn \in {"natten2dqkrpb", "natten2dav"} : KernelCall(fn)
    \/ \E oa \in BOOLEAN : \E shape \in AttnInputs(att.self.all_head_size) :
           SelfAttentionCall(shape, oa)
    \/ \E oa \in BOOLEAN : \E shape \in AttnInputs(att.self.all_head_size) :
           ModuleCall(shape, oa)

PruneNext == \E heads \in HeadSets : PruneHeads(heads)

(***************************************************************************)
(* Part 5.  NatEncoder, NatModel, NatBackbone                              *)
(***************************************************************************)
MaxDepth == 2         \* a stage has 0, 1 or MaxDepth layers

StageCounts == {1, 2, 4}
DepthValues == {0, 1, MaxDepth}
RECURSIVE Pow2(_)
Pow2(i) == IF i = 0 THEN 1 ELSE 2 * Pow2(i - 1)

RECURSIVE SumSeq(_)
SumSeq(q) == IF q = <<>> THEN 0 ELSE Head(q) + SumSeq(Tail(q))

\* ---- NatConfig ----
\* depths has n entries and at least one layer in all (the drop-path schedule
\* is ops.linspace(0, drop_path_rate, sum(depths))); num_heads has m entries,
\* all 1, all 3, or doubling
DepthSeqs ==
    {d \in UNION {[1..n -> DepthValues] : n \in StageCounts} : SumSeq(d) >= 1}
HeadSeqs ==
    UNION {{[i \in 1..m |-> 1], [i \in 1..m |-> 3], [i \in 1..m |-> Pow2(i - 1)]} :
              m \in StageCounts}
ModelEmbedDim == 2

NoConfig ==
    [patch_size |-> 4, num_channels |-> 3, embed_dim |-> ModelEmbedDim,
     depths |-> <<>>, num_heads |-> <<>>, kernel_size |-> 3,
     num_labels |-> 0, problem_type |-> "None",
     output_attentions |-> FALSE, output_hidden_states |-> FALSE,
     use_return_dict |-> TRUE, out_features |-> {},
     drop_path_rate |-> Rat(1, 5)]
NatConfig(depths, num_heads) ==
    [NoConfig EXCEPT !.depths = depths, !.num_heads = num_heads]
Configs == {NatConfig(d, h) : d \in DepthSeqs, h \in HeadSeqs}

\* NatConfig.stage_names: "stem", "stage1", ..., "stageN"
StageName(i) ==
    IF i = 0 THEN "stem" ELSE IF i = 1 THEN "stage1" ELSE IF i = 2 THEN "stage2"
    ELSE IF i = 3 THEN "stage3" ELSE "stage4"
stage_names(c) == [i \in 1..(Len(c.depths) + 1) |-> StageName(i - 1)]

\* ---- NatLayer.__init__ ----
\* drop_path is NatDropPath(drop_path_rate) when the rate is positive and
\* the identity otherwise
NatLayer_init(c, dim, num_heads, drop_path_rate) ==
    [dim |-> dim, kernel_size |-> c.kernel_size,
     attention |-> NeighborhoodAttentionModule_init(dim, num_heads, c.kernel_size),
     drop_path_rate |-> drop_path_rate,
     drop_path |-> IF drop_path_rate.n * drop_path_rate.d > 0
                   THEN "NatDropPath" ELSE "Identity"]

\* ---- NatStage.__init__ ----
\* downsample: NatDownsampler(dim) for every stage but the last
\* layer i (from 0) takes drop_path_rate[i]
NatStage_init(c, dim, depth, num_heads, drop_path_rate, downsample) ==
    LET layers == [i \in 1..depth |->
                      NatLayer_init(c, dim, num_heads,
                                    IF i <= Len(drop_path_rate)
                                    THEN drop_path_rate[i] ELSE Rat(0, 1))]
    IN  [err |-> IF depth > 0 /\ ~HeadsDivide(dim, num_heads)
                 THEN "ValueError"
                 ELSE IF depth > Len(drop_path_rate) THEN "IndexError"
                 ELSE NoErr,
         dim |-> dim, layers |-> layers, downsample |-> downsample]

\* ---- NatEncoder.__init__ ----
\* ops.linspace(start, end, steps): steps evenly spaced values, the first is
\* start and (from two steps on) the last is end
linspace(start, end, steps) ==
    [k \in 1..steps |->
        IF steps = 1 THEN start
        ELSE Rat(start.n * end.d * (steps - k) + end.n * start.d * (k - 1),
                 start.d * end.d * (steps - 1))]
\* dpr: one drop-path probability per layer of the whole encoder
dpr(c) == linspace(Rat(0, 1), c.drop_path_rate, SumSeq(c.depths))
\* q[a:b] with 0 <= a <= b, clipped to the length of q
Slice(q, a, b) ==
    LET hi == IF b <= Len(q) THEN b ELSE Len(q)
        lo == IF a <= hi THEN a ELSE hi
    IN  [j \in 1..(hi - lo) |-> q[lo + j]]
\* sum(config.depths[:i_layer]) and sum(config.depths[: i_layer + 1]), with
\* i_layer = i - 1
SliceStart_Zero(depths, i) == 0

SliceStart(depths, i) == SumSeq(SubSeq(depths, 1, i - 1))
SliceEnd(depths, i) == SumSeq(SubSeq(depths, 1, i))
StageDropPath(c, i) ==
    Slice(dpr(c), SliceStart(c.depths, i), SliceEnd(c.depths, i))
\* the stages are built in order; config.num_heads[i_layer] is read before
\* the stage is built
StageDim_Flat(c, i) == c.embed_dim

StageDim(c, i) == c.embed_dim * Pow2(i - 1)
LevelErr(c, i) ==
    IF i > Len(c.num_heads) THEN "IndexError"
    ELSE NatStage_init(c, StageDim(c, i), c.depths[i], c.num_heads[i],
                       StageDropPath(c, i), FALSE).err
FirstBad(c) ==
    LET bad == {i \in 1..Len(c.depths) : LevelErr(c, i) # NoErr}
    IN  IF bad = {} THEN 0 ELSE CHOOSE i \in bad : \A j \in bad : i <= j

NatEncoder_init(c) ==
    LET num_levels == Len(c.depths)
    IN  IF FirstBad(c) # 0
        THEN [err |-> LevelErr(c, FirstBad(c)), num_levels |-> num_levels,
              levels |-> <<>>]
        ELSE [err |-> NoErr, num_levels |-> num_levels,
              levels |-> [i \in 1..num_levels |->
                  NatStage_init(c, StageDim(c, i), c.depths[i], c.num_heads[i],
                                StageDropPath(c, i), i < num_levels)]]

\* ---- NatLayer.maybe_pad ----
\* pad_values = (0, 0, pad_l, pad_r, pad_t, pad_b): channels, width, height
Max(a, b) == IF a >= b THEN a ELSE b
NoPadding == <<0, 0, 0, 0, 0, 0>>

\* ops.pad(x, pad_values) on a b h w c tensor
PadApply(shape, pad_values) ==
    <<shape[1], shape[2] + pad_values[5] + pad_values[6],
      shape[3] + pad_values[3] + pad_values[4],
      shape[4] + pad_values[1] + pad_values[2]>>

maybe_pad(window_size, shape) ==
    IF shape[2] < window_size \/ shape[3] < window_size
    THEN LET pad_r == Max(0, window_size - shape[3])
             pad_b == Max(0, window_size - shape[2])
             pad_values == <<0, 0, 0, pad_r, 0, pad_b>>
         IN  [hidden_states |-> PadApply(shape, pad_values), pad_values |-> pad_values]
    ELSE [hidden_states |-> shape, pad_values |-> NoPadding]

\* ---- NatLayer.construct ----
\* was_padded = pad_values[3] > 0 or pad_values[5] > 0 (0-based)
WasPadded_Never(pad_values) == FALSE

WasPadded(pad_values) == pad_values[4] > 0 \/ pad_values[6] > 0

\* attention_output[:, :height, :width, :]
Crop(shape, height, width) ==
    <<shape[1], IF shape[2] < height THEN shape[2] ELSE height,
      IF shape[3] < width THEN shape[3] ELSE width, shape[4]>>

\* a + b: the shapes broadcast or the sum raises
Broadcast(a, b) ==
    IF Len(a) # Len(b) \/ \E i \in DOMAIN a : a[i] # b[i] /\ a[i] # 1 /\ b[i] # 1
    THEN BadShape
    ELSE [i \in DOMAIN a |-> Max(a[i], b[i])]

\* the layer output, the attention probabilities of this layer, and what
\* the attention was given (padded) with the padding added
LayerResult(e, shape, probs, ran, padded) ==
    [err |-> e, shape |-> shape, probs |-> probs, ran |-> ran,
     padded |-> padded.hidden_states, pad_values |-> padded.pad_values]

NatLayer_construct(l, hidden_states, output_attentions, k) ==
    IF LayerNormApply(l.dim, hidden_states) = BadShape
    THEN LayerResult("RuntimeError", BadShape, BadShape, <<>>,
                     [hidden_states |-> BadShape, pad_values |-> NoPadding])
    ELSE
    Let(maybe_pad(l.kernel_size, hidden_states),
        LAMBDA padded :
            Let(NeighborhoodAttentionModule_construct(
                    l.attention, padded.hidden_states, output_attentions, k),
                LAMBDA attention_outputs :
                    IF attention_outputs.err # NoErr
                    THEN LayerResult(attention_outputs.err, BadShape, BadShape,
                                     attention_outputs.ran, padded)
                    ELSE
                    LET attention_output ==
                            IF WasPadded(padded.pad_values)
                            THEN Crop(attention_outputs.shape, hidden_states[2],
                                      hidden_states[3])
                            ELSE attention_outputs.shape
                        \* shortcut + drop_path(attention_output); the norm,
                        \* the MLP and the second residual keep the shape
                        layer_output == Broadcast(hidden_states, attention_output)
                    IN  IF layer_output = BadShape
                        THEN LayerResult("RuntimeError", BadShape, BadShape,
                                         attention_outputs.ran, padded)
                        ELSE LayerResult(NoErr, layer_output, attention_outputs.probs,
                                         attention_outputs.ran, padded)))

\* ---- a layer called on its own ----
\* the layer NatStage builds around an attention module of these sizes
LayerOf(a) ==
    NatLayer_init([NoConfig EXCEPT !.kernel_size = a.self.kernel_size],
                  a.self.all_head_size, a.self.num_attention_heads, Rat(0, 1))

\* NatLayer.construct(hidden_states, output_attentions)
LayerCall(shape, oa) ==
    /\ apc \in {"built", "returned", "raised"}
    /\ acall' = [NoACall EXCEPT !.op = "NatLayer.construct",
                                !.shape = shape, !.output_attentions = oa]
    /\ aout' = NatLayer_construct(LayerOf(att), shape, oa, kernel)
    /\ apc' = IF aout'.err = NoErr THEN "returned" ELSE "raised"
    /\ UNCHANGED <<att, kernel, mpc, mcfg, model, mcall, mout, clsVars,
                   regVars, natVars, dpVars>>

LayerSides == {2, 3, 7, 8}
LayerInputs(dim) ==
    {<<1, h, w, c>> : h \in LayerSides, w \in LayerSides, c \in {dim, dim + 1}}

LayerNext ==
    \E oa \in BOOLEAN : \E shape \in LayerInputs(att.self.all_head_size) :
        LayerCall(shape, oa)

\* ---- NatStage.construct ----
\* runs the layers in order; layer_outputs is what the last layer returned
RECURSIVE RunLayers(_, _, _, _, _)
RunLayers(layers, j, hidden_states, output_attentions, k) ==
    IF j > Len(layers)
    THEN [err |-> NoErr, shape |-> hidden_states, last |-> <<>>]
    ELSE Let(NatLayer_construct(layers[j], hidden_states, output_attentions, k),
             LAMBDA layer_outputs :
                 IF layer_outputs.err # NoErr
                 THEN [err |-> layer_outputs.err, shape |-> BadShape, last |-> <<>>]
                 ELSE IF j < Len(layers)
                 THEN RunLayers(layers, j + 1, layer_outputs.shape, output_attentions, k)
                 ELSE [err |-> NoErr, shape |-> layer_outputs.shape,
                       last |-> <<[layer |-> j, probs |-> layer_outputs.probs]>>])

NatDownsampler_construct(d, input_feature) ==
    LET reduced == SequentialApply(d.projection, Permute(input_feature, <<0, 3, 1, 2>>))
    IN  IF reduced = BadShape THEN BadShape
        ELSE LayerNormApply(d.norm, Permute(reduced, <<0, 2, 3, 1>>))

StageResult(e, hidden, before, attentions) ==
    [err |-> e, shape |-> hidden, before |-> before, attentions |-> attentions]

\* stage_outputs = (hidden_states, hidden_states_before_downsampling)
\*                 + layer_outputs[1:] when output_attentions
NatStage_AllLayers(layers, last) ==
    [j \in 1..Len(layers) |-> [layer |-> j, probs |-> last[1].probs]]

NatStage_LastLayer(layers, last) == last

NatStage_construct(st, hidden_states, output_attentions, k) ==
    Let(RunLayers(st.layers, 1, hidden_states, output_attentions, k),
        LAMBDA run :
            IF run.err # NoErr THEN StageResult(run.err, BadShape, BadShape, <<>>)
            ELSE
            Let(IF st.downsample
                THEN NatDownsampler_construct(NatDownsampler_init(st.dim), run.shape)
                ELSE run.shape,
                LAMBDA down :
                    IF down = BadShape
                    THEN StageResult("RuntimeError", BadShape, BadShape, <<>>)
                    ELSE IF output_attentions /\ st.layers = <<>>
                    THEN StageResult("UnboundLocalError", BadShape, BadShape, <<>>)
                    ELSE StageResult(NoErr, down, run.shape,
                                     IF output_attentions
                                     THEN NatStage_LastLayer(st.layers, run.last)
                                     ELSE <<>>)))

\* ---- NatEncoder.construct ----
NoHistory == [hidden_states |-> <<>>, reshaped_hidden_states |-> <<>>,
              attentions |-> <<>>]

\* one boundary recorded: the channel-last state and its b c h w view
Record_ChannelLast(acc, hidden_state) ==
    [acc EXCEPT !.hidden_states = Append(@, hidden_state),
                !.reshaped_hidden_states = Append(@, hidden_state)]

Record(acc, hidden_state) ==
    [acc EXCEPT !.hidden_states = Append(@, hidden_state),
                !.reshaped_hidden_states =
                    Append(@, Permute(hidden_state, <<0, 3, 1, 2>>))]

\* all_self_attentions += layer_outputs[2:], tagged with the stage they come from
Collect(acc, i, attentions) ==
    [acc EXCEPT !.attentions =
        @ \o [n \in 1..Len(attentions) |->
                 [stage |-> i, layer |-> attentions[n].layer,
                  probs |-> attentions[n].probs]]]

RECURSIVE RunLevels(_, _, _, _, _, _, _, _)
RunLevels(levels, i, hidden_states, acc, oa, ohs, before, k) ==
    IF i > Len(levels)
    THEN [err |-> NoErr, shape |-> hidden_states, acc |-> acc]
    ELSE Let(NatStage_construct(levels[i], hidden_states, oa, k),
             LAMBDA layer_outputs :
                 IF layer_outputs.err # NoErr
                 THEN [err |-> layer_outputs.err, shape |-> BadShape, acc |-> NoHistory]
                 ELSE
                 Let(IF ~ohs THEN acc
                     ELSE IF before THEN Record(acc, layer_outputs.before)
                     ELSE Record(acc, layer_outputs.shape),
                     LAMBDA recorded :
                         Let(IF oa THEN Collect(recorded, i, layer_outputs.attentions)
                             ELSE recorded,
                             LAMBDA collected :
                                 RunLevels(levels, i + 1, layer_outputs.shape,
                                           collected, oa, ohs, before, k))))

\* the fields that are not None, in the order of the output
EncoderFields(oa, ohs, return_dict) ==
    <<"last_hidden_state">>
    \o (IF ohs THEN <<"hidden_states">> ELSE <<>>)
    \o (IF oa THEN <<"attentions">> ELSE <<>>)
    \o (IF ohs /\ return_dict THEN <<"reshaped_hidden_states">> ELSE <<>>)

EncoderResult(e, shape, acc, fields) ==
    [err |-> e, last_hidden_state |-> shape,
     hidden_states |-> acc.hidden_states,
     reshaped_hidden_states |-> acc.reshaped_hidden_states,
     attentions |-> acc.attentions, fields |-> fields]

NatEncoder_construct(e, hidden_states, oa, ohs, before, return_dict, k) ==
    Let(RunLevels(e.levels, 1, hidden_states,
                  IF ohs THEN Record(NoHistory, hidden_states) ELSE NoHistory,
                  oa, ohs, before, k),
        LAMBDA run :
            IF run.err # NoErr THEN EncoderResult(run.err, BadShape, NoHistory, <<>>)
            ELSE EncoderResult(NoErr, run.shape,
                               IF return_dict THEN run.acc
                               ELSE [run.acc EXCEPT !.reshaped_hidden_states = <<>>],
                               EncoderFields(oa, ohs, return_dict)))

\* ---- NatEmbeddings.construct ----
NoPixels == BadShape      \* pixel_values = None

NatEmbeddings_construct(emb, pixel_values) ==
    IF pixel_values = NoPixels THEN Raise("AttributeError")
    ELSE IF ~ChannelsMatch(pixel_values, emb) THEN Raise("ValueError")
    ELSE LET projected == SequentialApply(emb.projection, pixel_values)
         IN  IF projected = BadShape THEN Raise("RuntimeError")
             ELSE LET normed == LayerNormApply(emb.norm, Permute(projected, PatchAxes))
                  IN  IF normed = BadShape THEN Raise("RuntimeError") ELSE Ok(normed)

\* ---- NatModel.__init__ ----
NatModel_init(c) ==
    LET embeddings == NatEmbeddings_init(c)
        encoder == NatEncoder_init(c)
    IN  [cls |-> "NatModel",
         err |-> IF embeddings.err # "None" THEN embeddings.err ELSE encoder.err,
         num_levels |-> Len(c.depths),
         num_features |-> c.embed_dim * Pow2(Len(c.depths) - 1),
         embeddings |-> embeddings,
         encoder |-> encoder,
         pooler |-> TRUE]

\* ---- arguments that default to the configuration ----
\* an optional flag is {} when not given, else the singleton of its value
OptBool == {{}, {TRUE}, {FALSE}}
Given(b) == {b}
Resolve(arg, default) == IF arg = {} THEN default ELSE CHOOSE b \in arg : TRUE

\* ---- NatModel.construct ----
ModelResult(e, enc, pooled, ran) ==
    [err |-> e, last_hidden_state |-> enc.last_hidden_state,
     pooler_output |-> pooled, hidden_states |-> enc.hidden_states,
     reshaped_hidden_states |-> enc.reshaped_hidden_states,
     attentions |-> enc.attentions, ran |-> ran]
NoEncoding == EncoderResult(NoErr, BadShape, NoHistory, <<>>)

PixelsRequired_Unchecked(pixel_values) == FALSE

PixelsRequired(pixel_values) == pixel_values = NoPixels

NatModel_construct(m, c, pixel_values, output_attentions, output_hidden_states, return_dict, k) ==
    IF PixelsRequired(pixel_values)
    THEN ModelResult("ValueError", NoEncoding, BadShape, <<>>)
    ELSE
    Let(NatEmbeddings_construct(m.embeddings, pixel_values),
        LAMBDA embedding_output :
            IF embedding_output.err # NoErr
            THEN ModelResult(embedding_output.err, NoEncoding, BadShape, <<"embeddings">>)
            ELSE
            Let(NatEncoder_construct(m.encoder, embedding_output.shape,
                                     Resolve(output_attentions, c.output_attentions),
                                     Resolve(output_hidden_states, c.output_hidden_states),
                                     FALSE,
                                     Resolve(return_dict, c.use_return_dict), k),
                LAMBDA encoder_outputs :
                    IF encoder_outputs.err # NoErr
                    THEN ModelResult(encoder_outputs.err, NoEncoding, BadShape,
                                     <<"embeddings", "encoder">>)
                    ELSE
                    LET sequence_output ==
                            LayerNormApply(m.num_features,
                                           encoder_outputs.last_hidden_state)
                    IN  IF sequence_output = BadShape
                        THEN ModelResult("RuntimeError", NoEncoding, BadShape,
                                         <<"embeddings", "encoder", "layernorm">>)
                        ELSE ModelResult(NoErr, encoder_outputs,
                                         <<sequence_output[1], sequence_output[4]>>,
                                         <<"embeddings", "encoder", "layernorm",
                                           "pooler">>)))

\* ---- NatModel._prune_heads ----
\* for layer, heads in heads_to_prune.items():
\*     self.encoder.layer[layer].attention.prune_heads(heads)
\* NatEncoder sets num_levels, config and levels; a NatStage has no attention
EncoderAttributes == {"num_levels", "config", "levels"}
StageAttributes == {"config", "dim", "layers", "downsample", "pointing"}

PruneResult(e, done) == [err |-> e, pruned |-> done]

NatModel_prune_heads(m, heads_to_prune) ==
    IF heads_to_prune = <<>> THEN PruneResult(NoErr, <<>>)
    ELSE IF "layer" \notin EncoderAttributes THEN PruneResult("AttributeError", <<>>)
    ELSE IF "attention" \notin StageAttributes THEN PruneResult("AttributeError", <<>>)
    ELSE PruneResult(NoErr, heads_to_prune)

\* ---- NatBackbone.__init__ ----
\* num_features: the stem's width, then each stage's
num_features(c) ==
    <<c.embed_dim>> \o [i \in 1..Len(c.depths) |-> c.embed_dim * Pow2(i - 1)]

\* BackboneMixin.channels: the width of each stage of out_features
StageIndex(names, stage) == CHOOSE p \in DOMAIN names : names[p] = stage
channels(c, stage) == num_features(c)[StageIndex(stage_names(c), stage)]

NatBackbone_init(c) ==
    LET embeddings == NatEmbeddings_init(c)
        encoder == NatEncoder_init(c)
    IN  [cls |-> "NatBackbone",
         err |-> IF embeddings.err # "None" THEN embeddings.err ELSE encoder.err,
         stage_names |-> stage_names(c),
         out_features |-> c.out_features,
         embeddings |-> embeddings,
         encoder |-> encoder,
         hidden_states_norms |-> [stage \in c.out_features |-> channels(c, stage)]]

\* ---- NatBackbone.construct ----
\* if stage in self.out_features
Selected_Every(stage, out_features) == TRUE

Selected(stage, out_features) == stage \in out_features

\* zip(self.stage_names, hidden_states), from position p on: each selected
\* state goes b c h w -> b (h w) c, through the stage's norm, and back
RECURSIVE FeatureMaps(_, _, _)
FeatureMaps(b, hidden_states, p) ==
    IF p > Len(b.stage_names) \/ p > Len(hidden_states)
    THEN [err |-> NoErr, maps |-> <<>>]
    ELSE
    LET stage == b.stage_names[p]
        hidden_state == hidden_states[p]
        tokens == <<hidden_state[1], hidden_state[3] * hidden_state[4],
                    hidden_state[2]>>
        normed == LayerNormApply(b.hidden_states_norms[stage], tokens)
    IN  IF ~Selected(stage, b.out_features) THEN FeatureMaps(b, hidden_states, p + 1)
        ELSE IF stage \notin DOMAIN b.hidden_states_norms
        THEN [err |-> "KeyError", maps |-> <<>>]
        ELSE IF normed = BadShape
        THEN [err |-> "RuntimeError", maps |-> <<>>]
        ELSE Let(FeatureMaps(b, hidden_states, p + 1),
                 LAMBDA rest :
                     IF rest.err # NoErr THEN rest
                     ELSE [rest EXCEPT !.maps =
                              <<[stage |-> stage, norm |-> stage,
                                 shape |-> Permute(<<normed[1], hidden_state[3],
                                                     hidden_state[4], normed[3]>>,
                                                   <<0, 3, 1, 2>>)]>> \o @])

\* self.encoder(..., output_hidden_states=True, ...), whatever the caller gave
EncoderCollects_AsAsked(output_hidden_states) == output_hidden_states = {TRUE}

EncoderCollects(output_hidden_states) == TRUE

BackboneResult(e, maps, hidden_states, attentions, ran) ==
    [err |-> e, feature_maps |-> maps, hidden_states |-> hidden_states,
     attentions |-> attentions, ran |-> ran]

NatBackbone_construct(b, c, pixel_values, output_hidden_states, output_attentions, return_dict, k) ==
    Let(NatEmbeddings_construct(b.embeddings, pixel_values),
        LAMBDA embedding_output :
            IF embedding_output.err # NoErr
            THEN BackboneResult(embedding_output.err, <<>>, <<>>, <<>>, <<"embeddings">>)
            ELSE
            Let(NatEncoder_construct(b.encoder, embedding_output.shape,
                                     Resolve(output_attentions, c.output_attentions),
                                     EncoderCollects(output_hidden_states),
                                     TRUE, TRUE, k),
                LAMBDA outputs :
                    IF outputs.err # NoErr
                    THEN BackboneResult(outputs.err, <<>>, <<>>, <<>>,
                                        <<"embeddings", "encoder">>)
                    ELSE
                    Let(FeatureMaps(b, outputs.reshaped_hidden_states, 1),
                        LAMBDA maps :
                            IF maps.err # NoErr
                            THEN BackboneResult(maps.err, <<>>, <<>>, <<>>,
                                                <<"embeddings", "encoder", "norm">>)
                            ELSE BackboneResult(
                                     NoErr, maps.maps,
                                     IF Resolve(output_hidden_states,
                                                c.output_hidden_states)
                                     THEN outputs.hidden_states ELSE <<>>,
                                     \* the tuple carries no attentions
                                     IF Resolve(return_dict, c.use_return_dict)
                                     THEN outputs.attentions ELSE <<>>,
                                     <<"embeddings", "encoder", "norm">>))))

\* ---- the scenarios ----
NoModel == [cls |-> "None", obj |-> <<>>]
NoMCall ==
    [op |-> "None", pixel_values |-> NoPixels, labels |-> "None",
     output_attentions |-> {}, output_hidden_states |-> {}, before |-> FALSE,
     return_dict |-> {}, heads_to_prune |-> <<>>]
NoMOut == [err |-> "None"]

ModelIdle ==
    /\ kernel = "stub"
    /\ mpc = "idle"
    /\ mcfg = NoConfig
    /\ model = NoModel
    /\ mcall = NoMCall
    /\ mout = NoMOut

ModelInit ==
    /\ kernel \in Kernels
    /\ mpc = "start"
    /\ mcfg \in Configs
    /\ model = NoModel
    /\ mcall = NoMCall
    /\ mout = NoMOut

Constructed(cls, o) ==
    /\ model' = [cls |-> cls, obj |-> o]
    /\ mpc' = IF model'.obj.err = "None" THEN "built" ELSE "failed"
    /\ UNCHANGED <<kernel, mcall, mout, attVars, clsVars, regVars, natVars, dpVars>>

\* NatEncoder(config)
NewEncoder ==
    /\ mpc = "start"
    /\ Constructed("NatEncoder", NatEncoder_init(mcfg))
    /\ UNCHANGED mcfg

\* NatModel(config)
NewModel ==
    /\ mpc = "start"
    /\ Constructed("NatModel", NatModel_init(mcfg))
    /\ UNCHANGED mcfg

\* NatBackbone(config), the configuration naming out_features
OutFeatures(c) ==
    {of \in SUBSET {stage_names(c)[p] : p \in DOMAIN stage_names(c)} :
        Cardinality(of) \in {1, 2}}

NewBackbone(of) ==
    /\ mpc = "start"
    /\ mcfg' = [mcfg EXCEPT !.out_features = of]
    /\ Constructed("NatBackbone", NatBackbone_init(mcfg'))

\* none of the calls below changes the model or the configuration, so the
\* outcomes of a second call are those of a first one
Callable(cls) == mpc = "built" /\ model.cls = cls

Called(call, result) ==
    /\ mcall' = call
    /\ mout' = result
    /\ mpc' = IF mout'.err = NoErr THEN "returned" ELSE "raised"
    /\ UNCHANGED <<kernel, mcfg, model, attVars, clsVars, regVars, natVars, dpVars>>

\* NatEncoder.construct(hidden_states, ...)
EncoderCall(shape, oa, ohs, before, rd) ==
    /\ Callable("NatEncoder")
    /\ Called([NoMCall EXCEPT !.op = "construct", !.pixel_values = shape,
                  !.output_attentions = Given(oa), !.output_hidden_states = Given(ohs),
                  !.before = before, !.return_dict = Given(rd)],
              NatEncoder_construct(model.obj, shape, oa, ohs, before, rd, kernel))

\* NatModel.construct(pixel_values, ...)
ModelCall(pixel_values, oa, ohs, rd) ==
    /\ Callable("NatModel")
    /\ Called([NoMCall EXCEPT !.op = "construct", !.pixel_values = pixel_values,
                  !.output_attentions = oa, !.output_hidden_states = ohs,
                  !.return_dict = rd],
              NatModel_construct(model.obj, mcfg, pixel_values, oa, ohs, rd, kernel))

\* NatModel._prune_heads(heads_to_prune)
ModelPruneHeads(heads_to_prune) ==
    /\ Callable("NatModel")
    /\ Called([NoMCall EXCEPT !.op = "_prune_heads", !.heads_to_prune = heads_to_prune],
              NatModel_prune_heads(model.obj, heads_to_prune))

\* NatBackbone.construct(pixel_values, ...)
BackboneCall(pixel_values, ohs, oa, rd) ==
    /\ Callable("NatBackbone")
    /\ Called([NoMCall EXCEPT !.op = "construct", !.pixel_values = pixel_values,
                  !.output_attentions = oa, !.output_hidden_states = ohs,
                  !.return_dict = rd],
              NatBackbone_construct(model.obj, mcfg, pixel_values, ohs, oa, rd, kernel))

\* the inputs
EncoderInputs == {<<1, 2, 2, ModelEmbedDim>>, <<1, 7, 7, ModelEmbedDim>>}
PixelInputs == {<<1, 3, 8, 8>>, <<1, 3, 28, 28>>, <<1, 1, 8, 8>>}
\* heads_to_prune.items(): (layer, heads) pairs
HeadsToPrune == {<<>>, << <<0, {0}>> >>, << <<0, {0}>>, <<1, {0, 1}>> >>}

ModelNext ==
    \/ NewEncoder
    \/ NewModel
    \/ \E shape \in EncoderInputs, oa \in BOOLEAN, ohs \in BOOLEAN,
          before \in BOOLEAN, rd \in BOOLEAN :
           EncoderCall(shape, oa, ohs, before, rd)
    \/ \E oa \in OptBool, ohs \in OptBool, rd \in OptBool : ModelCall(NoPixels, oa, ohs, rd)
    \/ \E pixel_values \in PixelInputs, oa \in {{}, {TRUE}}, ohs \in {{}, {TRUE}},
          rd \in {{}, {FALSE}} :
           ModelCall(pixel_values, oa, ohs, rd)
    \/ \E heads_to_prune \in HeadsToPrune : ModelPruneHeads(heads_to_prune)

\* a backbone is configured with as many head counts as stages
BackboneInit ==
    /\ kernel \in Kernels
    /\ mpc = "start"
    /\ mcfg \in {c \in Configs : Len(c.num_heads) = Len(c.depths)}
    /\ model = NoModel
    /\ mcall = NoMCall
    /\ mout = NoMOut

BackboneNext ==
    \/ \E of \in OutFeatures(mcfg) : NewBackbone(of)
    \/ \E pixel_values \in PixelInputs, ohs \in {{}, {TRUE}}, oa \in {{}, {TRUE}} :
           BackboneCall(pixel_values, ohs, oa, {})
    \/ \E ohs \in OptBool, rd \in {{TRUE}, {FALSE}} :
           BackboneCall(<<1, 3, 28, 28>>, ohs, {}, rd)

(***************************************************************************)
(* Part 6.  NatForImageClassification.construct                            *)
(***************************************************************************)
\* Each forward pass is a caller; its steps are the statements that read or
\* write self.config.problem_type, which the callers share.
Callers == {1, 2}

\* labels.dtype; "None" stands for labels = None
LabelTypes == {"int64", "int32", "int16", "float32"}
NoLabels == "None"

\* ---- NatForImageClassification.__init__ ----
NatForImageClassification_init(c) ==
    LET nat == NatModel_init(c)
    IN  [cls |-> "NatForImageClassification",
         err |-> nat.err,
         num_labels |-> c.num_labels,
         nat |-> nat,
         classifier |-> IF c.num_labels > 0
                        THEN <<nat.num_features, c.num_labels>>
                        ELSE "Identity"]

\* self.classifier(pooled_output)
ClassifierApply(classifier, pooled_output) ==
    IF classifier = "Identity" THEN pooled_output
    ELSE DenseApply(classifier, pooled_output)

\* ---- lines 899-907: the inference ----
ProblemTypeUnset_Always(c) == TRUE

ProblemTypeUnset(c) == c.problem_type = "None"

InferProblemType(num_labels, dtype) ==
    IF num_labels = 1 THEN "regression"
    ELSE IF num_labels > 1 /\ (dtype = "int64" \/ dtype = "int32")
         THEN "single_label_classification"
         ELSE "multi_label_classification"

\* ---- lines 909-919: the loss of one branch ----
RegressionLoss_CrossEntropy(num_labels) == "cross_entropy"

RegressionLoss(num_labels) ==
    IF num_labels = 1 THEN "mse_loss(squeeze)" ELSE "mse_loss"
SingleLabelLoss == "cross_entropy"
MultiLabelLoss == "binary_cross_entropy_with_logits"
NoLoss == "None"

\* ---- the locals of one pass; inferred: the pass wrote config.problem_type ----
ClassifierLocals(outputs, logits) ==
    [err |-> outputs.err, ran |-> outputs.ran, logits |-> logits, loss |-> NoLoss,
     inferred |-> FALSE,
     hidden_states |-> outputs.hidden_states,
     reshaped_hidden_states |-> outputs.reshaped_hidden_states,
     attentions |-> outputs.attentions]

\* lines 882-897: outputs = self.nat(...), logits = self.classifier(outputs[1])
ClassifierForward(m, c, pixel_values, output_attentions, output_hidden_states, return_dict, k) ==
    Let(NatModel_construct(m.nat, c, pixel_values, output_attentions,
                           output_hidden_states,
                           Given(Resolve(return_dict, c.use_return_dict)), k),
        LAMBDA outputs :
            IF outputs.err # NoErr
            THEN ClassifierLocals(outputs, BadShape)
            ELSE ClassifierLocals(outputs,
                                  ClassifierApply(m.classifier, outputs.pooler_output)))

ClassifierIdle ==
    /\ tpc = [t \in Callers |-> "idle"]
    /\ tcall = [t \in Callers |-> NoMCall]
    /\ tloc = [t \in Callers |-> NoMOut]

\* the configurations of the classifier: one stage, num_labels and a
\* problem_type that is unset or set by the user
LabelCounts == {0, 1, 3}
ProblemTypes ==
    {"regression", "single_label_classification", "multi_label_classification"}
ClassifierConfigs ==
    {[NatConfig(<<1>>, <<1>>) EXCEPT !.num_labels = n, !.problem_type = p] :
        n \in LabelCounts, p \in ProblemTypes \cup {"None"}}

ClassifierInit ==
    /\ kernel \in Kernels
    /\ mpc = "start"
    /\ mcfg \in ClassifierConfigs
    /\ model = NoModel
    /\ mcall = NoMCall
    /\ mout = NoMOut
    /\ ClassifierIdle

\* the two passes start on a configuration whose problem_type is unset
ConcurrentInit ==
    /\ ClassifierInit
    /\ mcfg.problem_type = "None"

\* NatForImageClassification(config)
NewClassifier ==
    /\ mpc = "start"
    /\ Constructed("NatForImageClassification", NatForImageClassification_init(mcfg))
    /\ UNCHANGED mcfg

Step(t, at, locals) ==
    /\ tpc' = [tpc EXCEPT ![t] = at]
    /\ tloc' = [tloc EXCEPT ![t] = locals]
    /\ UNCHANGED <<kernel, mpc, model, mcall, mout, attVars, regVars, natVars, dpVars>>

\* an error raised under self.nat(...) leaves construct at line 886
Propagates_Swallowed(locals) == FALSE

Propagates(locals) == locals.err # NoErr

\* lines 882-898: the pass up to `if labels is not None`
ClassifierCall(t, pixel_values, labels, oa, ohs, rd) ==
    /\ Callable("NatForImageClassification")
    /\ tpc[t] = "idle"
    /\ tcall' = [tcall EXCEPT ![t] =
                    [NoMCall EXCEPT !.op = "construct", !.pixel_values = pixel_values,
                        !.labels = labels, !.output_attentions = oa,
                        !.output_hidden_states = ohs, !.return_dict = rd]]
    /\ tloc' = [tloc EXCEPT ![t] =
                   ClassifierForward(model.obj, mcfg, pixel_values, oa, ohs, rd, kernel)]
    /\ tpc' = [tpc EXCEPT ![t] =
                  IF Propagates(tloc'[t]) THEN "raised"
                  ELSE IF labels = NoLabels THEN "returned"
                  ELSE "899"]
    /\ UNCHANGED <<mdlVars, attVars, regVars, natVars, dpVars>>

\* line 899: if self.config.problem_type is None
CheckProblemType(t) ==
    /\ tpc[t] = "899"
    /\ Step(t, IF ProblemTypeUnset(mcfg) THEN "900" ELSE "909", tloc[t])
    /\ UNCHANGED <<mcfg, tcall>>

\* lines 900-907: self.config.problem_type = ...
WriteProblemType(t) ==
    /\ tpc[t] = "900"
    /\ mcfg' = [mcfg EXCEPT !.problem_type =
                   InferProblemType(model.obj.num_labels, tcall[t].labels)]
    /\ Step(t, "909", [tloc[t] EXCEPT !.inferred = TRUE])
    /\ UNCHANGED tcall

\* lines 909-913: if self.config.problem_type == "regression"
LossIfRegression(t) ==
    /\ tpc[t] = "909"
    /\ IF mcfg.problem_type = "regression"
       THEN Step(t, "returned",
                 [tloc[t] EXCEPT !.loss = RegressionLoss(model.obj.num_labels)])
       ELSE Step(t, "914", tloc[t])
    /\ UNCHANGED <<mcfg, tcall>>

\* lines 914-917: elif self.config.problem_type == "single_label_classification"
LossIfSingleLabel(t) ==
    /\ tpc[t] = "914"
    /\ IF mcfg.problem_type = "single_label_classification"
       THEN Step(t, "returned", [tloc[t] EXCEPT !.loss = SingleLabelLoss])
       ELSE Step(t, "918", tloc[t])
    /\ UNCHANGED <<mcfg, tcall>>

\* lines 918-919: elif self.config.problem_type == "multi_label_classification";
\* no branch taken leaves loss = None
LossIfMultiLabel(t) ==
    /\ tpc[t] = "918"
    /\ IF mcfg.problem_type = "multi_label_classification"
       THEN Step(t, "returned", [tloc[t] EXCEPT !.loss = MultiLabelLoss])
       ELSE Step(t, "returned", tloc[t])
    /\ UNCHANGED <<mcfg, tcall>>

\* the caller takes the result; the next call on the same model can start
NextCall(t) ==
    /\ tpc[t] \in {"returned", "raised"}
    /\ tcall' = [tcall EXCEPT ![t] = NoMCall]
    /\ Step(t, "idle", NoMOut)
    /\ UNCHANGED mcfg

ClassifierPixels == {<<1, 3, 8, 8>>, <<1, 1, 8, 8>>}

PassSteps(t) ==
    \/ CheckProblemType(t)
    \/ WriteProblemType(t)
    \/ LossIfRegression(t)
    \/ LossIfSingleLabel(t)
    \/ LossIfMultiLabel(t)

\* one pass after the other; the NatModel the classifier delegates to is also
\* called on its own, without pixels
ClassifierNext ==
    \/ NewClassifier
    \/ NewModel
    \/ \E oa \in OptBool, ohs \in OptBool, rd \in OptBool : ModelCall(NoPixels, oa, ohs, rd)
    \/ \E labels \in LabelTypes \cup {NoLabels}, oa \in OptBool, ohs \in OptBool,
          rd \in OptBool :
           ClassifierCall(1, NoPixels, labels, oa, ohs, rd)
    \/ \E pixel_values \in ClassifierPixels, labels \in LabelTypes \cup {NoLabels},
          rd \in {{}, {FALSE}} :
           ClassifierCall(1, pixel_values, labels, {}, {}, rd)
    \/ PassSteps(1)
    \/ NextCall(1)

\* two passes on one model, their steps interleaved
ConcurrentNext ==
    \/ NewClassifier
    \/ \E t \in Callers, labels \in LabelTypes :
           ClassifierCall(t, <<1, 3, 8, 8>>, labels, {}, {}, {})
    \/ \E t \in Callers : PassSteps(t)

(***************************************************************************)
(* Specifications                                                          *)
(***************************************************************************)
NatIdle == NatInit

RegistryIdle == RegistryInit

TopIdle == ModelIdle /\ AttentionIdle /\ ClassifierIdle

InitRegistry == RegistryInit /\ NatIdle /\ DropPathIdle /\ TopIdle
InitNat == RegistryIdle /\ NatInit /\ DropPathIdle /\ TopIdle
InitDropPath == RegistryIdle /\ NatIdle /\ DropPathInit /\ TopIdle
InitAttention ==
    /\ RegistryIdle /\ NatIdle /\ DropPathIdle /\ ClassifierIdle
    /\ AttentionInit
    /\ kernel \in Kernels
    /\ mpc = "idle" /\ mcfg = NoConfig /\ model = NoModel
    /\ mcall = NoMCall /\ mout = NoMOut
InitModel ==
    /\ RegistryIdle /\ NatIdle /\ DropPathIdle /\ AttentionIdle /\ ClassifierIdle
    /\ ModelInit
InitBackbone ==
    /\ RegistryIdle /\ NatIdle /\ DropPathIdle /\ AttentionIdle /\ ClassifierIdle
    /\ BackboneInit
InitPrune ==
    /\ RegistryIdle /\ NatIdle /\ DropPathIdle /\ ClassifierIdle
    /\ AttentionInit
    /\ ModelIdle
InitClassifier ==
    /\ RegistryIdle /\ NatIdle /\ DropPathIdle /\ AttentionIdle
    /\ ClassifierInit
InitConcurrent ==
    /\ RegistryIdle /\ NatIdle /\ DropPathIdle /\ AttentionIdle
    /\ ConcurrentInit

SpecRegistry == InitRegistry /\ [][RegistryNext]_vars
SpecNat == InitNat /\ [][NatNext]_vars
SpecDropPath == InitDropPath /\ [][DropPathNext]_vars
SpecAttention == InitAttention /\ [][AttentionNext]_vars
SpecPrune == InitPrune /\ [][PruneNext]_vars
SpecLayer == InitAttention /\ [][LayerNext]_vars
SpecModel == InitModel /\ [][ModelNext]_vars
SpecBackbone == InitBackbone /\ [][BackboneNext]_vars
SpecClassifier == InitClassifier /\ [][ClassifierNext]_vars
SpecConcurrent == InitConcurrent /\ [][ConcurrentNext]_vars

(***************************************************************************)
(* Properties                                                              *)
(***************************************************************************)
Count(seq, e) == Cardinality({i \in DOMAIN seq : seq[i].ev = e})
IsFacadeFromConfig == pc = "idle" /\ cur.cls \in Facades /\ cur.op = "from_config"

MappingAsked(c) ==
    IF c.cls \in Facades THEN ModelMappingOf(c.cls)
    ELSE IF c.cls = "AutoModelWithLMHead" THEN ModelMappingOf("_AutoModelWithLMHead")
    ELSE c.cls
KeysAsked(c) ==
    IF c.op = "__iter__" THEN {k \in AllKeys : Contains(MappingAsked(c), k)}
    ELSE {c.args.key}

\* C2: over any sequence of membership tests, lookups, iterations and
\* registrations, each key's class is imported at most once; an import only
\* happens for a key the running operation asks its mapping about; an entry
\* once memoised keeps its value; and a lookup of a registered key finds the
\* registered class.
C2_ResolvedAtMostOnce ==
    /\ [](\A m \in Mappings : \A k \in AllKeys : imports[m][k] <= 1)
    /\ [][\A m \in Mappings : \A k \in AllKeys :
            imports'[m][k] # imports[m][k] =>
                /\ m = MappingAsked(cur')
                /\ k \in KeysAsked(cur')
                /\ imports'[m][k] = imports[m][k] + 1]_vars
    /\ [][\A m \in Mappings : \A k \in DOMAIN cache[m] :
            k \in DOMAIN cache'[m] /\ cache'[m][k] = cache[m][k]]_vars
    /\ [](\A m \in Mappings : \A k \in DOMAIN cache[m] :
            imports[m][k] = 1 /\ cache[m][k] = TableGet(TableOf(m), k))
    /\ []((pc = "idle" /\ cur.op = "__getitem__"
            /\ cur.args.key \in DOMAIN extra[cur.cls]) =>
                /\ ret.kind = "class"
                /\ ret.cls = extra[cur.cls][cur.args.key]
                /\ events = <<>>)

C2_Witness ==
    /\ pc = "idle"
    /\ cur = MappingOp("MODEL_FOR_CAUSAL_LM_MAPPING", "__getitem__", "custom")
    /\ ret.cls = "CustomModel"
    /\ DOMAIN cache["MODEL_FOR_CAUSAL_LM_MAPPING"] = {"gpt2"}
    /\ imports["MODEL_FOR_CAUSAL_LM_MAPPING"]["gpt2"] = 1
    /\ imports["MODEL_FOR_CAUSAL_LM_MAPPING"]["bert"] = 0

\* C3: a call of AutoModelWithLMHead.from_config / from_pretrained issues
\* exactly one FutureWarning naming the three replacement facades, before
\* anything else; it then always goes on to call the same operation of
\* _AutoModelWithLMHead with the very arguments it was given, exactly once,
\* and its outcome is that call's outcome.
C3_WarnThenDelegate ==
    /\ pc = "warned" =>
        /\ Len(events) = 1
        /\ events[1].ev = "warn"
        /\ ret = NoRet
        /\ ENABLED DeprecatedDelegate
    /\ cur.cls = "AutoModelWithLMHead" =>
        /\ Count(events, "warn") = 1
        /\ events[1].ev = "warn"
        /\ events[1].who = "FutureWarning"
        /\ events[1].op = cur.op
        /\ events[1].args.kwargs = DeprecationNames
    /\ (pc = "idle" /\ cur.cls = "AutoModelWithLMHead") =>
        /\ Count(events, "delegate") = 1
        /\ events[2] = Event("delegate", "_AutoModelWithLMHead", cur.op, cur.args)
        /\ ret.args = cur.args
        /\ ret.kind \in {"model", "error"}
        /\ \A i \in 3..Len(events) : events[i].op \in {cur.op, "resolve"}
        /\ ret.kind = "model" =>
            /\ Contains("MODEL_WITH_LM_HEAD_MAPPING", cur.args.key)
            /\ ret.cls = GetItem("MODEL_WITH_LM_HEAD_MAPPING", cur.args.key)
            /\ ret.weights = IF cur.op = "from_pretrained" THEN cur.args.src ELSE "random"
            /\ events[Len(events)].args = cur.args
        /\ ret.kind = "error" =>
            /\ ~Contains("MODEL_WITH_LM_HEAD_MAPPING", cur.args.key)
            /\ ret.err = "ValueError"

C3_Witness ==
    /\ pc = "idle"
    /\ cur.cls = "AutoModelWithLMHead"
    /\ cur.op = "from_pretrained"
    /\ cur.args.margs = <<"arg0">>
    /\ ret.kind = "model"
    /\ ret.cls = "BertForMaskedLM"
    /\ Len(events) >= 4

IsPatchObj == obj.cls \in {"NatPatchEmbeddings", "NatEmbeddings"}

\* C4: constructing NatPatchEmbeddings (alone or inside NatEmbeddings) with a
\* patch_size other than 4 raises ValueError with no projection created and no
\* forward computation possible; with patch_size = 4 it does not raise and the
\* projection is created.
C4_PatchSizeMustBe4 ==
    IsPatchObj =>
        IF cfg.patch_size # 4
        THEN /\ obj.err = "ValueError"
             /\ npc = "failed"
             /\ obj.projection = <<>>
             /\ obj.built = <<>>
             /\ trace = <<>>
             /\ out = NoOut
             /\ ~ENABLED (\E sh \in PixelShapes : Forward(sh))
        ELSE /\ obj.err = "None"
             /\ npc # "failed"
             /\ Len(obj.projection) = 2
             /\ obj.built[1] = "projection"

C4_Witness ==
    /\ obj.cls = "NatPatchEmbeddings"
    /\ cfg.patch_size = 8
    /\ obj.err = "ValueError"
    /\ npc = "failed"

\* C5: for an input (batch, num_channels, H, W) with H and W positive multiples
\* of 4, NatPatchEmbeddings.construct returns shape (batch, H/4, W/4, embed_dim),
\* computed by a projection of two stride-2, kernel-3, padding-1 convolutions
\* num_channels -> embed_dim/2 -> embed_dim followed by the permutation to
\* channel-last, and it does not raise; (1, 3, 224, 224) with embed_dim 64
\* gives (1, 56, 56, 64).
C5_PatchEmbeddingShape ==
    (IsPatchObj /\ input # BadShape /\ input[2] = obj.num_channels
        /\ input[3] % 4 = 0 /\ input[4] % 4 = 0) =>
        /\ npc # "raised"
        /\ obj.projection =
              <<Conv2d(cfg.num_channels, cfg.embed_dim \div 2, 3, 2, 1),
                Conv2d(cfg.embed_dim \div 2, cfg.embed_dim, 3, 2, 1)>>
        /\ npc = "projected" =>
              out.shape = <<input[1], cfg.embed_dim, input[3] \div 4, input[4] \div 4>>
        /\ npc \in {"embedded", "normed", "done"} =>
              /\ out.shape = <<input[1], input[3] \div 4, input[4] \div 4, cfg.embed_dim>>
              /\ SubSeq(trace, 1, 2) = <<"projection", "permute">>
        /\ (npc = "done" /\ input = <<1, 3, 224, 224>> /\ cfg.embed_dim = 64) =>
              out.shape = <<1, 56, 56, 64>>

C5_Witness ==
    /\ obj.cls = "NatPatchEmbeddings"
    /\ npc = "done"
    /\ input = <<1, 3, 224, 224>>
    /\ cfg.embed_dim = 64
    /\ out.shape = <<1, 56, 56, 64>>

\* C6: a forward pass of NatPatchEmbeddings / NatEmbeddings on an input whose
\* channel dimension differs from the configured num_channels ends, at its
\* first step, with ValueError, and neither the projection, the permutation,
\* the layer norm nor the dropout has run.
C6_ChannelMismatchRaisesFirst ==
    (IsPatchObj /\ input # BadShape /\ input[2] # obj.num_channels /\ npc # "called") =>
        /\ npc = "raised"
        /\ out.err = "ValueError"
        /\ out.shape = BadShape
        /\ trace = <<>>

C6_Witness ==
    /\ obj.cls = "NatEmbeddings"
    /\ npc = "raised"
    /\ out.err = "ValueError"
    /\ input[2] = 1
    /\ obj.num_channels = 3
    /\ trace = <<>>

\* C7: constructing NeighborhoodAttention raises ValueError whenever dim is not
\* divisible by num_heads (96 and 7); whenever it is divisible construction
\* succeeds with attention_head_size = dim / num_heads and
\* all_head_size = num_heads * attention_head_size = dim (96 and 3: 32).
C7_HeadsMustDivideDim ==
    obj.cls = "NeighborhoodAttention" =>
        /\ (\A q \in 1..cfg.dim : q * cfg.num_heads # cfg.dim) =>
              /\ obj.err = "ValueError"
              /\ npc = "failed"
              /\ obj.built = <<>>
        /\ (\E q \in 1..cfg.dim : q * cfg.num_heads = cfg.dim) =>
              /\ obj.err = "None"
              /\ npc = "built"
              /\ obj.num_attention_heads = cfg.num_heads
              /\ obj.attention_head_size * cfg.num_heads = cfg.dim
              /\ obj.all_head_size = obj.num_attention_heads * obj.attention_head_size
              /\ obj.all_head_size = cfg.dim
        /\ (cfg.dim = 96 /\ cfg.num_heads = 7) => obj.err = "ValueError"
        /\ (cfg.dim = 96 /\ cfg.num_heads = 3) => obj.attention_head_size = 32

C7_Witness ==
    /\ obj.cls = "NeighborhoodAttention"
    /\ cfg.dim = 96
    /\ cfg.num_heads = 7
    /\ obj.err = "ValueError"

\* C10: NatDownsampler.construct maps a channel-last input (batch, H, W, C),
\* C the module's dim and H, W even, to (batch, H/2, W/2, 2*C) without raising;
\* (1, 28, 28, 96) gives (1, 14, 14, 192).
C10_DownsamplerShape ==
    (obj.cls = "NatDownsampler" /\ input # BadShape /\ input[4] = obj.dim
        /\ input[2] % 2 = 0 /\ input[3] % 2 = 0) =>
        /\ npc # "raised"
        /\ npc \in {"reduced", "done"} =>
              out.shape = <<input[1], input[2] \div 2, input[3] \div 2, 2 * input[4]>>
        /\ (npc = "done" /\ input = <<1, 28, 28, 96>>) => out.shape = <<1, 14, 14, 192>>

C10_Witness ==
    /\ obj.cls = "NatDownsampler"
    /\ npc = "done"
    /\ input = <<1, 28, 28, 96>>
    /\ out.shape = <<1, 14, 14, 192>>
    /\ trace = <<"permute", "reduction", "permute", "norm">>

\* numerical equality of rationals and of tensors
RatEq(a, b) == a.d # 0 /\ b.d # 0 /\ a.n * b.d = b.n * a.d
TensorEq(a, b) ==
    /\ a.shape = b.shape
    /\ DOMAIN a.data = DOMAIN b.data
    /\ \A i \in DOMAIN a.data : RatEq(a.data[i], b.data[i])

\* C8: whenever training is false or drop_prob = 0, drop_path (called directly
\* or through NatDropPath.construct) returns at once, and what it returns is
\* numerically identical to its input, whatever the input's shape.
C8_DropPathIdentity ==
    (dpc \notin {"drop_path", "NatDropPath"} /\ (~dp_train \/ dp_prob = 0)) =>
        /\ dpc = "done"
        /\ dp_rand = <<>>
        /\ TensorEq(dp_out, dp_in)

C8_Witness ==
    /\ dpc = "done"
    /\ ~dp_train
    /\ dp_prob = 3
    /\ dp_in.shape = <<1, 1, 2>>
    /\ dp_in.data[2].n = 2
    /\ dp_out = dp_in

\* the entries of sample b (first axis) of a tensor of the given shape
SampleOf(i, shape) == Unflatten(i - 1, shape)[1] + 1
Entries(b, shape) == {i \in 1..Prod(shape) : SampleOf(i, shape) = b}
IsZero(x) == x.d # 0 /\ x.n = 0
\* y = x / (1 - p), p = drop_prob / ProbDen
IsScaled(y, x, drop_prob) ==
    y.d # 0 /\ y.n * x.d * (ProbDen - drop_prob) = x.n * ProbDen * y.d
SampleDropped(b) == \A i \in Entries(b, dp_in.shape) : IsZero(dp_out.data[i])
SampleKept(b) ==
    \A i \in Entries(b, dp_in.shape) : IsScaled(dp_out.data[i], dp_in.data[i], dp_prob)

\* the random draw gives the samples the keep/drop decisions of mask
DrawsMask(mask) ==
    /\ DropPathRand
    /\ \A b \in DOMAIN mask : Binarize(dp_prob, dp_rand'[b]) = mask[b]

\* C9: in training mode with 0 < drop_prob < 1, drop_path draws one keep/drop
\* bit per sample; in its output every sample is either entirely zero or
\* exactly the input sample divided by (1 - drop_prob); and every combination
\* of decisions over the samples can be drawn.
C9_PerSampleDropOrScale ==
    (dp_train /\ dp_prob > 0 /\ dp_prob < ProbDen) =>
        /\ dpc = "entered" =>
              \A mask \in [1..dp_in.shape[1] -> {0, 1}] : ENABLED DrawsMask(mask)
        /\ dpc \in {"drawn", "done"} => Len(dp_rand) = dp_in.shape[1]
        /\ dpc = "done" =>
              /\ dp_out.shape = dp_in.shape
              /\ \A b \in 1..dp_in.shape[1] :
                    /\ SampleDropped(b) \/ SampleKept(b)
                    /\ Binarize(dp_prob, dp_rand[b]) = 0 => SampleDropped(b)
                    /\ Binarize(dp_prob, dp_rand[b]) = 1 => SampleKept(b)

C9_Witness ==
    /\ dpc = "done"
    /\ dp_train
    /\ dp_prob = 1
    /\ dp_in.shape = <<2, 1>>
    /\ dp_in.data[1].n = 2
    /\ dp_in.data[2].n = -1
    /\ SampleDropped(1) /\ ~SampleKept(1)
    /\ SampleKept(2) /\ ~SampleDropped(2)
    /\ dp_out.data[2] = Rat(-4, 3)

\* ---------------------------------------------------------------------------
\* C14  Pruning is idempotent: a prune_heads call with the heads of the
\*      prune_heads call before it (which returned) leaves
\*      num_attention_heads, all_head_size and pruned_heads as that first
\*      call left them.
C14_PruneIdempotent ==
    [][(acall'.op = "prune_heads" /\ acall'.prior = {acall'.heads})
       => /\ att'.self.num_attention_heads = att.self.num_attention_heads
          /\ att'.self.all_head_size = att.self.all_head_size
          /\ att'.pruned_heads = att.pruned_heads]_vars

\* head 2 was pruned twice in a row, from a module that had it
C14_Witness ==
    /\ apc = "returned"
    /\ acall.op = "prune_heads"
    /\ acall.heads = {2}
    /\ acall.prior = {{2}}
    /\ att.pruned_heads = {2}
    /\ att.self.num_attention_heads = 2
    /\ att.self.all_head_size = 2 * att.self.attention_head_size

\* ---------------------------------------------------------------------------
\* C15  With the kernel unavailable, a call of natten2dqkrpb or natten2dav
\*      raises OptionalDependencyNotAvailable at once, and a
\*      NeighborhoodAttention.construct call (alone or inside the module) on
\*      an input its projections accept raises that error at the logit
\*      step: softmax, dropout and the aggregation never run and nothing is
\*      returned.
IsAttentionCall ==
    acall.op \in {"NeighborhoodAttention.construct",
                  "NeighborhoodAttentionModule.construct"}

C15_NoKernelNoAttention ==
    kernel = "stub" =>
        /\ acall.op \in {"natten2dqkrpb", "natten2dav"}
              => /\ apc = "raised"
                 /\ aout.err = "OptionalDependencyNotAvailable"
                 /\ aout.shape = BadShape
        /\ IsAttentionCall
              => /\ apc = "raised"
                 /\ aout.shape = BadShape /\ aout.probs = BadShape
                 /\ \A i \in DOMAIN aout.ran :
                        aout.ran[i] \notin {"softmax", "dropout", "natten2dav",
                                            "permute", "view", "dense"}
                 /\ acall.shape[4] = att.self.all_head_size
                       => /\ aout.err = "OptionalDependencyNotAvailable"
                          /\ aout.ran = <<"query", "key", "value", "scale",
                                          "natten2dqkrpb">>

C15_Witness ==
    /\ kernel = "stub"
    /\ acall.op = "NeighborhoodAttention.construct"
    /\ acall.shape = <<1, 7, 7, 96>>
    /\ att.self.num_attention_heads = 3
    /\ apc = "raised"
    /\ aout.err = "OptionalDependencyNotAvailable"
    /\ aout.ran[Len(aout.ran)] = "natten2dqkrpb"

\* ---------------------------------------------------------------------------
\* C13  A NatBackbone forward pass that the encoder completes returns one
\*      feature map per stage of out_features and none for any other stage,
\*      in the order of stage_names, each normalized by the layer norm kept
\*      under its own stage name and as wide as that stage.
RunsThrough ==
    /\ kernel = "natten"
    /\ mcall.pixel_values # NoPixels
    /\ mcall.pixel_values[2] = mcfg.num_channels
    /\ ~(\E i \in DOMAIN mcfg.depths :
            mcfg.depths[i] = 0 /\ Resolve(mcall.output_attentions, FALSE))

EncoderReturnedAttentions ==
    /\ model.cls = "NatEncoder"
    /\ mcall.op = "construct"
    /\ mpc = "returned"
    /\ mcall.output_attentions = {TRUE}

ValidEntry(e) ==
    /\ e[1] + 1 \in DOMAIN mcfg.depths
    /\ mcfg.depths[e[1] + 1] >= 1
    /\ e[2] \subseteq 0..(mcfg.num_heads[e[1] + 1] - 1)

C18_PruneDelegates ==
    (/\ model.cls = "NatModel" /\ mcall.op = "_prune_heads"
     /\ \A n \in DOMAIN mcall.heads_to_prune : ValidEntry(mcall.heads_to_prune[n])) =>
        /\ mout.err = NoErr
        /\ mout.pruned = mcall.heads_to_prune

\* ---------------------------------------------------------------------------
\* C19  Constructing the encoder, or a model holding one, from a
\*      configuration whose depths and num_heads differ in length fails,
\*      whichever of the two is the longer.
C19_LengthMismatchFails ==
    (model.cls # "None" /\ Len(mcfg.depths) # Len(mcfg.num_heads)) =>
        model.obj.err # "None"

\* ---- NatForImageClassification: the problem type and the loss ----
IsIntegerType(dtype) == dtype \in {"int64", "int32", "int16"}

\* caller t executes the write of lines 900-907
Infers(t) == tpc[t] = "900" /\ tpc'[t] = "909"

LossSelectedBy(problem_type, loss) ==
    \/ problem_type = "regression" /\ loss \in {"mse_loss", "mse_loss(squeeze)"}
    \/ problem_type = "single_label_classification" /\ loss = "cross_entropy"
    \/ problem_type = "multi_label_classification"
           /\ loss = "binary_cross_entropy_with_logits"

\* caller t returns from a pass that was given labels
ReturnsWithLabels(t) ==
    /\ tpc[t] \in {"909", "914", "918"}
    /\ tpc'[t] = "returned"

C16_PixelsRequired ==
    /\ (model.cls = "NatModel" /\ mcall.op = "construct"
           /\ mcall.pixel_values = NoPixels) =>
          /\ mpc = "raised"
          /\ mout.err = "ValueError"
          /\ mout.ran = <<>>
    /\ \A t \in Callers :
          (tcall[t].op = "construct" /\ tcall[t].pixel_values = NoPixels) =>
              /\ tpc[t] = "raised"
              /\ tloc[t].err = "ValueError"
              /\ tloc[t].ran = <<>>
              /\ tloc[t].logits = BadShape
              /\ tloc[t].loss = NoLoss

\* the classifier was called with labels and all three flags given, without
\* pixels, and the call raised
C16_Witness ==
    /\ tcall[1].op = "construct"
    /\ tcall[1].pixel_values = NoPixels
    /\ tcall[1].labels = "int64"
    /\ tcall[1].output_attentions = {TRUE}
    /\ tcall[1].output_hidden_states = {TRUE}
    /\ tcall[1].return_dict = {FALSE}
    /\ tpc[1] = "raised"
    /\ tloc[1].err = "ValueError"

\* ---- two passes at once ----
BothReturned == \A t \in Callers : tpc[t] = "returned"

BuiltHeads(m) == m.output.dense[2] \div m.self.attention_head_size

\* C28: over any sequence of prune_heads calls, a call with valid head
\* indices returns; after every call num_attention_heads is the head count
\* the module was built with less the size of pruned_heads, all_head_size is
\* attention_head_size * num_attention_heads, attention_head_size is
\* unchanged, pruned_heads has only grown, and a call with no heads changes
\* nothing.
C28_PruneBookkeeping ==
    [][acall'.op = "prune_heads" =>
          /\ acall'.heads \subseteq 0..(BuiltHeads(att) - 1) => apc' = "returned"
          /\ att'.self.num_attention_heads =
                 BuiltHeads(att) - Cardinality(att'.pruned_heads)
          /\ att'.self.all_head_size =
                 att'.self.attention_head_size * att'.self.num_attention_heads
          /\ att'.self.attention_head_size = att.self.attention_head_size
          /\ att.pruned_heads \subseteq att'.pruned_heads
          /\ acall'.heads = {} => att' = att]_vars

\* heads 0 and then 2 were pruned from a module built with 3 heads
C28_Witness ==
    /\ apc = "returned"
    /\ acall.op = "prune_heads"
    /\ acall.prior = {{0}}
    /\ acall.heads = {2}
    /\ BuiltHeads(att) = 3
    /\ att.pruned_heads = {0, 2}
    /\ att.self.num_attention_heads = 1
    /\ att.self.all_head_size = att.self.attention_head_size

\* C29: after every prune_heads call the head dimension of rpb equals the
\* tracked num_attention_heads.
C29_BiasFollowsHeads ==
    (acall.op = "prune_heads") => att.self.rpb[1] = att.self.num_attention_heads

\* ---- a pass that ends in an error ----
\* C27: a forward pass of NatForImageClassification that ends in an error
\* (no pixel tensor, a channel-count mismatch, the attention kernel
\* unavailable) leaves config.problem_type as it was, also when labels were
\* given and problem_type was unset; config.problem_type is written only by a
\* pass whose NatModel forward and classifier have returned.
C27_ErrorLeavesProblemType ==
    [][\A t \in Callers :
          /\ (tpc[t] # "raised" /\ tpc'[t] = "raised") =>
                 mcfg'.problem_type = mcfg.problem_type
          /\ (tpc[t] = "900" /\ mcfg'.problem_type # mcfg.problem_type) =>
                 /\ tloc[t].err = NoErr
                 /\ tloc[t].ran = <<"embeddings", "encoder", "layernorm", "pooler">>
                 /\ tloc[t].logits # BadShape
          /\ (tpc[t] # "900") => (tpc'[t] # tpc[t] => mcfg'.problem_type = mcfg.problem_type)]_vars

\* a pass given pixels and int64 labels was stopped by the unavailable kernel;
\* problem_type is still unset
C27_Witness ==
    /\ tpc[1] = "raised"
    /\ tcall[1].pixel_values = <<1, 3, 8, 8>>
    /\ tcall[1].labels = "int64"
    /\ tloc[1].err = "OptionalDependencyNotAvailable"
    /\ tloc[1].logits = BadShape
    /\ mcfg.problem_type = "None"

\* ---- the shipped kernels ----
\* a forward pass of NatModel that got past the pixel and the channel checks
PastInputChecks ==
    /\ model.cls = "NatModel"
    /\ mcall.op = "construct"
    /\ mcall.pixel_values # NoPixels
    /\ mcall.pixel_values[2] = mcfg.num_channels

\* C30: with natten2dqkrpb and natten2dav bound to the failing stubs, every
\* forward pass over a configuration with at least one transformer layer that
\* passes the pixel-tensor and channel-count checks ends with
\* OptionalDependencyNotAvailable, raised in the encoder, and returns nothing.
C30_StubsStopEveryPass ==
    (kernel = "stub" /\ PastInputChecks /\ SumSeq(mcfg.depths) >= 1) =>
        /\ mpc = "raised"
        /\ mout.err = "OptionalDependencyNotAvailable"
        /\ mout.ran = <<"embeddings", "encoder">>

\* ---- NatEncoder.construct: the two forms of the result ----
\* a call of NatEncoder.construct has returned
EncoderReturned ==
    /\ model.cls = "NatEncoder"
    /\ mcall.op = "construct"
    /\ mpc = "returned"

\* what the same call returns with return_dict = True
Structured ==
    NatEncoder_construct(model.obj, mcall.pixel_values,
                         Resolve(mcall.output_attentions, FALSE),
                         Resolve(mcall.output_hidden_states, FALSE),
                         mcall.before, TRUE, kernel)

RECURSIVE Halved(_, _)
Halved(side, n) == IF n = 0 THEN side ELSE Halved((side + 1) \div 2, n - 1)

\* the state at the boundary of stage i (1-based) of an encoder of n stages
\* fed a b x h x w x c tensor: before the stage's downsampler, or after it
BoundaryBefore(x, i) ==
    <<x[1], Halved(x[2], i - 1), Halved(x[3], i - 1), x[4] * Pow2(i - 1)>>
BoundaryAfter(x, i, n) ==
    IF i = n THEN BoundaryBefore(x, n) ELSE BoundaryBefore(x, i + 1)

\* all_hidden_states, all_reshaped_hidden_states at the end of the loop of
\* the call that returned (line 669)
Recorded ==
    RunLevels(model.obj.levels, 1, mcall.pixel_values,
              IF Resolve(mcall.output_hidden_states, FALSE)
              THEN Record(NoHistory, mcall.pixel_values) ELSE NoHistory,
              Resolve(mcall.output_attentions, FALSE),
              Resolve(mcall.output_hidden_states, FALSE),
              mcall.before, kernel).acc

BuiltEncoder ==
    IF model.cls = "NatEncoder" THEN model.obj ELSE model.obj.encoder

\* the width a stage hands on: that of its downsampler's norm, or its own
WidthOut(st) == IF st.downsample THEN NatDownsampler_init(st.dim).norm ELSE st.dim

\* C26: in an encoder built for n stages, stage i (0-based) has width
\* embed_dim * 2^i, every stage but the last has a downsampler and the last
\* has none, the width a stage hands on is the width of the next stage, and
\* the width leaving the last stage is NatModel.num_features =
\* embed_dim * 2^(n-1), the width of NatModel's final layer norm.
C26_StageWidths ==
    (mpc # "start" /\ model.cls \in {"NatEncoder", "NatModel"}
        /\ model.obj.err = NoErr) =>
        LET levels == BuiltEncoder.levels
            n == Len(levels)
        IN  /\ n = Len(mcfg.depths)
            /\ \A i \in 1..n :
                  /\ levels[i].dim = mcfg.embed_dim * (2 ^ (i - 1))
                  /\ levels[i].downsample <=> i < n
                  /\ \A j \in DOMAIN levels[i].layers :
                         levels[i].layers[j].dim = levels[i].dim
                  /\ i < n => WidthOut(levels[i]) = levels[i + 1].dim
            /\ model.cls = "NatModel" =>
                  /\ model.obj.num_features = mcfg.embed_dim * (2 ^ (n - 1))
                  /\ model.obj.num_features = WidthOut(levels[n])

\* a NatModel of four stages: the last stage is 16 wide with no downsampler
C26_Witness ==
    /\ mpc = "built"
    /\ model.cls = "NatModel"
    /\ Len(mcfg.depths) = 4
    /\ model.obj.encoder.levels[3].dim = 8
    /\ model.obj.encoder.levels[3].downsample
    /\ model.obj.encoder.levels[4].dim = 16
    /\ ~model.obj.encoder.levels[4].downsample
    /\ model.obj.num_features = 16

\* ---- NatBackbone.construct: the caller's flags ----
BackboneReturned ==
    /\ model.cls = "NatBackbone"
    /\ mcall.op = "construct"
    /\ mpc = "returned"

\* the feature maps of the same call with output_hidden_states = True and
\* return_dict = True
MapsWhenAsked ==
    NatBackbone_construct(model.obj, mcfg, mcall.pixel_values, {TRUE},
                          mcall.output_attentions, {TRUE}, kernel).feature_maps

LayerReturned == acall.op = "NatLayer.construct" /\ apc = "returned"

RECURSIVE LayersBefore(_, _)
LayersBefore(depths, i) ==
    IF i <= 1 THEN 0 ELSE LayersBefore(depths, i - 1) + depths[i - 1]

\* entry k (from 1) of a linear schedule of n entries from 0 to rate
ScheduleEntry(rate, n, k) ==
    IF n = 1 THEN Rat(0, 1) ELSE Rat(rate.n * (k - 1), rate.d * (n - 1))

\* the positions (from 1) of the schedule that stage i is handed
SlicePositions(depths, i) ==
    {LayersBefore(depths, i) + j : j \in 1..depths[i]}

\* C23: an encoder that was built has a schedule of sum(depths) drop-path
\* probabilities running linearly from 0 to drop_path_rate; stage i is handed
\* the depths[i] entries that follow those of the stages before it, so the
\* slices are pairwise disjoint, in stage order and cover the schedule, and
\* layer j (from 0) of stage i has schedule entry sum(depths[:i]) + j.
C23_DropPathSchedule ==
    (model.cls \in {"NatEncoder", "NatModel"} /\ model.obj.err = NoErr) =>
        LET depths == mcfg.depths
            n == Len(depths)
            total == SumSeq(depths)
            schedule == dpr(mcfg)
            levels == BuiltEncoder.levels
        IN  /\ Len(schedule) = total
            /\ \A k \in 1..total :
                  RatEq(schedule[k], ScheduleEntry(mcfg.drop_path_rate, total, k))
            /\ RatEq(schedule[1], Rat(0, 1))
            /\ total >= 2 => RatEq(schedule[total], mcfg.drop_path_rate)
            /\ \A i \in 1..n :
                  /\ Len(StageDropPath(mcfg, i)) = depths[i]
                  /\ Len(levels[i].layers) = depths[i]
                  /\ \A j \in 1..depths[i] :
                        /\ StageDropPath(mcfg, i)[j]
                              = schedule[LayersBefore(depths, i) + j]
                        /\ levels[i].layers[j].drop_path_rate
                              = schedule[LayersBefore(depths, i) + j]
            /\ \A i \in 1..n : \A h \in 1..n :
                  i < h => \A a \in SlicePositions(depths, i) :
                              \A b \in SlicePositions(depths, h) : a < b
            /\ UNION {SlicePositions(depths, i) : i \in 1..n} = 1..total

\* stages of one and of two layers: the schedule is 0, 1/10, 1/5; the first
\* stage's layer has entry 0 (no drop path) and the second stage's layers
\* have entries 1 and 2
C23_Witness ==
    /\ mpc = "built"
    /\ model.cls = "NatModel"
    /\ mcfg.depths = <<1, 2>>
    /\ BuiltEncoder.levels[1].layers[1].drop_path = "Identity"
    /\ RatEq(BuiltEncoder.levels[2].layers[1].drop_path_rate, Rat(1, 10))
    /\ RatEq(BuiltEncoder.levels[2].layers[2].drop_path_rate, Rat(1, 5))
    /\ BuiltEncoder.levels[2].layers[2].drop_path = "NatDropPath"
====
